---- MODULE Spec2Model ----
(***************************************************************************)
(* Model of the reflection / metaclass benchmark programs:                 *)
(*   - the serializers of comprehensive_benchmark.cpp,                     *)
(*     working_reflection_demo.cpp and template_traditional.cpp,           *)
(*   - the AdvancedBenchmark accumulator,                                  *)
(*   - benchmark_serialization_comprehensive and the overhead reports.     *)
(*                                                                         *)
(* Text is a sequence of one-character strings.  A double is modelled by   *)
(* the integer number of eighths it holds (q stands for q/8), which is     *)
(* exact in binary floating point, so that the conversions of operator<<   *)
(* (default %g with 6 significant digits, std::fixed with a precision) are *)
(* computed digit by digit, round-half-even on the exact value.            *)
(* Measured times are exact rationals [n, d] in lowest terms.              *)
(***************************************************************************)
EXTENDS Integers, Sequences, FiniteSets, TLC

VARIABLES
    call,       \* serializer spec: which serializer pair was last invoked
    arg,        \* serializer spec: the instance it was given
    json,       \* serializer spec: text returned by the generic path
    manual,     \* serializer spec: text returned by the hand-written path
    meta,       \* serializer spec: the descriptor the call obtained from reflexpr
    thrown,     \* serializer spec: the exception the call left with, "none" if none
    second,     \* serializer spec: text a second call on the same instance returned
    measurements_,  \* AdvancedBenchmark::measurements_
    ab_call,        \* the AdvancedBenchmark method called last
    ab_ret,         \* what that call returned
    ab_prev,        \* history: the call before it, what it returned, and the
                    \* trials it left
    ab_double,      \* the Result of that call as binary64 arithmetic computes it
    scenario,           \* main: how many benchmark calls have been started
    earlier_recorded,   \* history: an earlier call has recorded measurements
    pc,                 \* benchmark_serialization_comprehensive: control point
    objects,            \* its dataset argument: [type, objs]
    runs,               \* its runs argument
    run,                \* the loop counter
    pos,                \* number of objects the running range-for has visited
    reflection_bench,   \* measurements_ of the local reflection_bench
    manual_bench,       \* measurements_ of the local manual_bench
    reflection_result,  \* reflection_bench.get_result(objects.size())
    manual_result,      \* manual_bench.get_result(objects.size())
    overhead,           \* the reported performance overhead
    throughputs,        \* the throughput print_result reports for each Result
    raised,             \* the exception that left the routine, "none" if none
    reflection_seen,    \* objects the reflection pass of this run serialized
    manual_seen,        \* objects the manual pass of this run serialized
    demo_pc,            \* benchmarks::benchmark_serialization: control point
    routine,            \* which file's benchmark_serialization runs
    reflection_time,    \* its reflection_time
    manual_time,        \* its manual_time
    demo_overhead,      \* the overhead it prints
    rtti_time,          \* benchmarks::benchmark_type_analysis: its rtti_time
    speedup,            \* the speedup it prints
    fact,               \* compile_time_test<N>::factorial(): N and the value
    state_,         \* observer spec: state_ (or the set member) of each object
    observers_,     \* observer spec: observers_ of each object
    registered,     \* observer spec: add_observer calls each object has had
    obs_call,       \* observer spec: the call made last
    notified        \* observer spec: the observer invocations of that call

serVars == <<call, arg, json, manual, meta, thrown, second>>
abVars  == <<measurements_, ab_call, ab_ret, ab_prev, ab_double>>
cmpVars == <<scenario, earlier_recorded, pc, objects, runs, run, pos, reflection_bench, manual_bench,
             reflection_result, manual_result, overhead, throughputs, raised,
             reflection_seen, manual_seen>>
demoVars == <<demo_pc, routine, reflection_time, manual_time, demo_overhead,
              rtti_time, speedup, fact>>
obsVars == <<state_, observers_, registered, obs_call, notified>>
vars    == <<serVars, abVars, cmpVars, demoVars, obsVars>>

(* the part of the state a specification does not use stays as constructed *)
AbIdle ==
    /\ measurements_ = <<>>
    /\ ab_call = "none"
    /\ ab_ret = "void"
    /\ ab_prev = [call |-> "none", ret |-> "void", trials |-> <<>>]
    /\ ab_double = "unset"

SerIdle ==
    /\ call = "none"
    /\ arg = <<>>
    /\ json = <<>>
    /\ manual = <<>>
    /\ meta = "unset"
    /\ thrown = "none"
    /\ second = "unset"

CmpIdle ==
    /\ scenario = 0
    /\ earlier_recorded = FALSE
    /\ pc = "idle"
    /\ objects = <<>>
    /\ runs = 0
    /\ run = 0
    /\ pos = 0
    /\ reflection_bench = <<>>
    /\ manual_bench = <<>>
    /\ reflection_result = "unset"
    /\ manual_result = "unset"
    /\ overhead = "unset"
    /\ throughputs = "unset"
    /\ raised = "none"
    /\ reflection_seen = <<>>
    /\ manual_seen = <<>>

DemoIdle ==
    /\ demo_pc = "idle"
    /\ routine = "none"
    /\ reflection_time = "unset"
    /\ manual_time = "unset"
    /\ demo_overhead = "unset"
    /\ rtti_time = "unset"
    /\ speedup = "unset"
    /\ fact = "unset"

NoCall == [op |-> "none", subject |-> "none", arg |-> "none", before |-> "none"]

ObsIdle ==
    /\ state_ = <<>>
    /\ observers_ = <<>>
    /\ registered = <<>>
    /\ obs_call = NoCall
    /\ notified = <<>>

----------------------------------------------------------------------------
(* Bounds of the model *)

MaxLen == 1        \* longest text field value
MaxItems == 2      \* longest sequence field (items, employees, data_)
MaxTrials == 3     \* most measurements one accumulator is given
MaxObjects == 2    \* largest benchmark dataset
MaxRuns == 2       \* largest runs argument
MaxScenarios == 2  \* most benchmark calls main makes one after another
MaxN == 22          \* largest template argument of compile_time_test
MaxObservers == 2  \* most add_observer calls one object is given

----------------------------------------------------------------------------
(* Characters and text *)

Q == "\""

Alphabet == {"a", ","}

RECURSIVE TextsOfLen(_)
TextsOfLen(n) ==
    IF n = 0 THEN {<<>>}
    ELSE {Append(t, c) : t \in TextsOfLen(n - 1), c \in Alphabet}

Texts == UNION {TextsOfLen(n) : n \in 0..MaxLen}

DigitChars == <<"0", "1", "2", "3", "4", "5", "6", "7", "8", "9">>

Abs(i) == IF i < 0 THEN -i ELSE i

RECURSIVE Pow10(_)
Pow10(k) == IF k = 0 THEN 1 ELSE 10 * Pow10(k - 1)

RECURSIVE NatDigits(_)
NatDigits(n) ==
    IF n < 10 THEN <<DigitChars[n + 1]>>
    ELSE Append(NatDigits(n \div 10), DigitChars[(n % 10) + 1])

RECURSIVE Zeros(_)
Zeros(k) == IF k <= 0 THEN <<>> ELSE <<"0">> \o Zeros(k - 1)

RECURSIVE StripTrailingZeros(_)
StripTrailingZeros(ds) ==
    IF ds # <<>> /\ ds[Len(ds)] = "0"
    THEN StripTrailingZeros(SubSeq(ds, 1, Len(ds) - 1))
    ELSE ds

(* operator<<(int): decimal digits, '-' for a negative value *)
IntText(i) == IF i < 0 THEN <<"-">> \o NatDigits(-i) ELSE NatDigits(i)

(* nearest integer to num/den (num >= 0), ties to even *)
RoundHalfEven(num, den) ==
    LET n == num \div den
        r == num % den
    IN  IF 2 * r > den \/ (2 * r = den /\ n % 2 = 1) THEN n + 1 ELSE n

(* digits of n with exactly dec of them after the point *)
PointDigits(n, dec) ==
    LET ds  == NatDigits(n)
        pad == Zeros(dec + 1 - Len(ds)) \o ds
        ip  == SubSeq(pad, 1, Len(pad) - dec)
        fp  == SubSeq(pad, Len(pad) - dec + 1, Len(pad))
    IN  [int |-> ip, frac |-> fp]

(* operator<<(double) under std::fixed with precision prec (%.<prec>f) *)
FixedText(q, prec) ==
    LET n  == RoundHalfEven(Abs(q) * Pow10(prec), 8)
        pd == PointDigits(n, prec)
        sg == IF q < 0 THEN <<"-">> ELSE <<>>
    IN  sg \o pd.int \o (IF prec > 0 THEN <<".">> \o pd.frac ELSE <<>>)

(* decimal exponent of a/8 for a > 0: 10^X <= a/8 < 10^(X+1) *)
RECURSIVE Exp10(_)
Exp10(a) ==
    IF a < 8 THEN Exp10(a * 10) - 1
    ELSE IF a >= 80 THEN Exp10(a \div 10) + 1
    ELSE 0

(* a/8 rounded to P significant digits, as the P-digit integer mantissa *)
Mantissa(a, X, P) ==
    IF P - 1 - X >= 0
    THEN RoundHalfEven(a * Pow10(P - 1 - X), 8)
    ELSE RoundHalfEven(a, 8 * Pow10(X - (P - 1)))

(* operator<<(double) in the default float format (%.<P>g) *)
GeneralText(q, prec) ==
    LET P  == IF prec = 0 THEN 1 ELSE prec
        a  == Abs(q)
        sg == IF q < 0 THEN <<"-">> ELSE <<>>
    IN  IF a = 0 THEN <<"0">>
        ELSE
          LET X0 == Exp10(a)
              m0 == Mantissa(a, X0, P)
              up == m0 = Pow10(P)
              X  == IF up THEN X0 + 1 ELSE X0
              m  == IF up THEN Pow10(P - 1) ELSE m0
          IN  IF X < -4 \/ X >= P
              THEN LET pd == PointDigits(m, P - 1)
                       fr == StripTrailingZeros(pd.frac)
                       ex == NatDigits(Abs(X))
                   IN  sg \o pd.int
                          \o (IF fr = <<>> THEN <<>> ELSE <<".">> \o fr)
                          \o <<"e", IF X < 0 THEN "-" ELSE "+">>
                          \o Zeros(2 - Len(ex)) \o ex
              ELSE LET pd == PointDigits(m, P - 1 - X)
                       fr == StripTrailingZeros(pd.frac)
                   IN  sg \o pd.int
                          \o (IF fr = <<>> THEN <<>> ELSE <<".">> \o fr)

----------------------------------------------------------------------------
(* std::ostringstream: the buffer and the sticky format state *)

NewStream == [buf |-> <<>>, fixed |-> FALSE, prec |-> 6]

PutText(s, t)  == [s EXCEPT !.buf = @ \o t]
PutInt(s, i)   == [s EXCEPT !.buf = @ \o IntText(i)]
SetFixed(s)        == [s EXCEPT !.fixed = TRUE]
SetPrecision(s, p) == [s EXCEPT !.prec = p]
PutDouble(s, q) ==
    [s EXCEPT !.buf = @ \o (IF s.fixed THEN FixedText(q, s.prec)
                                       ELSE GeneralText(q, s.prec))]

----------------------------------------------------------------------------
(* A chain of << insertions, applied left to right to one stream *)

T(t)    == [op |-> "text",   v |-> t]
I(i)    == [op |-> "int",    v |-> i]
D(q)    == [op |-> "double", v |-> q]
Fixed   == [op |-> "fixed",  v |-> 0]
Prec(p) == [op |-> "prec",   v |-> p]

Insert(s, e) ==
    CASE e.op = "text"   -> PutText(s, e.v)
      [] e.op = "int"    -> PutInt(s, e.v)
      [] e.op = "double" -> PutDouble(s, e.v)
      [] e.op = "fixed"  -> SetFixed(s)
      [] e.op = "prec"   -> SetPrecision(s, e.v)

RECURSIVE Chain(_, _)
Chain(s, es) == IF es = <<>> THEN s ELSE Chain(Insert(s, Head(es)), Tail(es))

BoolLit(b) == IF b THEN <<"t", "r", "u", "e">> ELSE <<"f", "a", "l", "s", "e">>

(* member names, as the character sequences the sources spell *)
n_name          == <<"n", "a", "m", "e">>
n_age           == <<"a", "g", "e">>
n_salary        == <<"s", "a", "l", "a", "r", "y">>
n_department    == <<"d", "e", "p", "a", "r", "t", "m", "e", "n", "t">>
n_is_active     == <<"i", "s", "_", "a", "c", "t", "i", "v", "e">>
n_price         == <<"p", "r", "i", "c", "e">>
n_quantity      == <<"q", "u", "a", "n", "t", "i", "t", "y">>
n_category      == <<"c", "a", "t", "e", "g", "o", "r", "y">>
n_rating        == <<"r", "a", "t", "i", "n", "g">>
n_order_id      == <<"o", "r", "d", "e", "r", "_", "i", "d">>
n_customer_name == <<"c", "u", "s", "t", "o", "m", "e", "r", "_", "n", "a", "m", "e">>
n_items         == <<"i", "t", "e", "m", "s">>
n_total_amount  == <<"t", "o", "t", "a", "l", "_", "a", "m", "o", "u", "n", "t">>
n_order_date    == <<"o", "r", "d", "e", "r", "_", "d", "a", "t", "e">>
n_employees     == <<"e", "m", "p", "l", "o", "y", "e", "e", "s">>
n_revenue       == <<"r", "e", "v", "e", "n", "u", "e">>

(* the literal fragments of the serializers:  "k":"   "k":   ",   *)
KeyStr(k) == <<Q>> \o k \o <<Q, ":", Q>>
KeyRaw(k) == <<Q>> \o k \o <<Q, ":">>
EndStr    == <<Q, ",">>

----------------------------------------------------------------------------
(* mock_meta::get_member_names<T>(), comprehensive_benchmark.cpp and        *)
(* working_reflection_demo.cpp                                              *)

get_member_names(type) ==
    CASE type = "Person"  -> <<n_name, n_age, n_salary, n_department, n_is_active>>
      [] type = "Product" -> <<n_name, n_price, n_quantity, n_category, n_rating>>
      [] type = "Order"   -> <<n_order_id, n_customer_name, n_items,
                               n_total_amount, n_order_date>>
      [] type = "Person3" -> <<n_name, n_age, n_salary>>
      [] type = "Company" -> <<n_name, n_employees, n_revenue>>
      [] OTHER -> <<>>   \* the else branch of mock_reflection_demo.cpp

(* struct mock_meta::info *)
info(type_name, type_size, is_class_type, member_count) ==
    [type_name |-> type_name, type_size |-> type_size,
     is_class_type |-> is_class_type, member_count |-> member_count]

(* sizeof(T) is fixed by the platform: kept as a symbol *)
sizeof(type) == <<"sizeof", type>>

(* std::is_class_v<T> for the types other than the registered structs *)
is_class_v(type) == type # "int"

(* reflexpr whose last else if has become the else *)
reflexpr_NoElseBranch(type) ==
    CASE type = "Person"  -> info("Person", sizeof(type), TRUE, 5)
      [] type = "Product" -> info("Product", sizeof(type), TRUE, 5)
      [] type = "Order"   -> info("Order", sizeof(type), TRUE, 5)
      [] type = "Person3" -> info("Person", sizeof(type), TRUE, 3)
      [] OTHER -> info("Company", sizeof(type), TRUE, 3)

(* mock_meta::reflexpr<T>(): the specializations (branches) of the three    *)
(* files and their primary template (last else)                             *)
reflexpr(type) ==
    CASE type = "Person"  -> info("Person", sizeof(type), TRUE, 5)
      [] type = "Product" -> info("Product", sizeof(type), TRUE, 5)
      [] type = "Order"   -> info("Order", sizeof(type), TRUE, 5)
      [] type = "Person3" -> info("Person", sizeof(type), TRUE, 3)
      [] type = "Company" -> info("Company", sizeof(type), TRUE, 3)
      [] OTHER -> info("Unknown", sizeof(type), is_class_v(type), 0)

(* the members of each type that are double *)
FloatingMembers(type) ==
    CASE type = "Person"  -> {n_salary}
      [] type = "Product" -> {n_price, n_rating}
      [] type = "Order"   -> {n_total_amount}
      [] type = "Person3" -> {n_salary}
      [] type = "Company" -> {n_revenue}

----------------------------------------------------------------------------
(* enhanced_serialization::ReflectionSerializer, comprehensive_benchmark.cpp *)

ReflectionSerializer_Person(obj) ==
    Chain(NewStream,
          << T(<<"{">> \o KeyStr(n_name)), T(obj.name), T(EndStr),
             T(KeyRaw(n_age)), I(obj.age), T(<<",">>),
             T(KeyRaw(n_salary)), Fixed, Prec(2), D(obj.salary), T(<<",">>),
             T(KeyStr(n_department)), T(obj.department), T(EndStr),
             T(KeyRaw(n_is_active)), T(BoolLit(obj.is_active)), T(<<"}">>) >>).buf

(* the Product serializer writing the rating under the key of the price *)
ReflectionSerializer_Product_PriceTwice(obj) ==
    Chain(NewStream,
          << T(<<"{">> \o KeyStr(n_name)), T(obj.name), T(EndStr),
             T(KeyRaw(n_price)), Fixed, Prec(2), D(obj.price), T(<<",">>),
             T(KeyRaw(n_quantity)), I(obj.quantity), T(<<",">>),
             T(KeyStr(n_category)), T(obj.category), T(EndStr),
             T(KeyRaw(n_price)), D(obj.rating), T(<<"}">>) >>).buf

ReflectionSerializer_Product(obj) ==
    Chain(NewStream,
          << T(<<"{">> \o KeyStr(n_name)), T(obj.name), T(EndStr),
             T(KeyRaw(n_price)), Fixed, Prec(2), D(obj.price), T(<<",">>),
             T(KeyRaw(n_quantity)), I(obj.quantity), T(<<",">>),
             T(KeyStr(n_category)), T(obj.category), T(EndStr),
             T(KeyRaw(n_rating)), D(obj.rating), T(<<"}">>) >>).buf

(* the items loop with the separator written after every element *)
RECURSIVE Order_ItemsLoop_TrailingSep(_, _, _)
Order_ItemsLoop_TrailingSep(s, items, i) ==
    IF i < Len(items)
    THEN LET s1 == PutText(s, ReflectionSerializer_Product(items[i + 1]))
             s2 == PutText(s1, <<",">>)
         IN  Order_ItemsLoop_TrailingSep(s2, items, i + 1)
    ELSE s

(* for (size_t i = 0; i < obj.items.size(); ++i): i is the 0-based index *)
RECURSIVE Order_ItemsLoop(_, _, _)
Order_ItemsLoop(s, items, i) ==
    IF i < Len(items)
    THEN LET s1 == IF i > 0 THEN PutText(s, <<",">>) ELSE s
             s2 == PutText(s1, ReflectionSerializer_Product(items[i + 1]))
         IN  Order_ItemsLoop(s2, items, i + 1)
    ELSE s

(* the Order serializer writing the order date under the key "date" *)
ReflectionSerializer_Order_DateKey(obj) ==
    LET s0 == Chain(NewStream,
                    << T(<<"{">> \o KeyRaw(n_order_id)), I(obj.order_id), T(<<",">>),
                       T(KeyStr(n_customer_name)), T(obj.customer_name), T(EndStr),
                       T(KeyRaw(n_total_amount)), D(obj.total_amount), T(<<",">>),
                       T(KeyStr(<<"d", "a", "t", "e">>)), T(obj.order_date), T(EndStr),
                       T(KeyRaw(n_items) \o <<"[">>) >>)
        s1 == Order_ItemsLoop(s0, obj.items, 0)
    IN  PutText(s1, <<"]", "}">>).buf

ReflectionSerializer_Order(obj) ==
    LET s0 == Chain(NewStream,
                    << T(<<"{">> \o KeyRaw(n_order_id)), I(obj.order_id), T(<<",">>),
                       T(KeyStr(n_customer_name)), T(obj.customer_name), T(EndStr),
                       T(KeyRaw(n_total_amount)), D(obj.total_amount), T(<<",">>),
                       T(KeyStr(n_order_date)), T(obj.order_date), T(EndStr),
                       T(KeyRaw(n_items) \o <<"[">>) >>)
        s1 == Order_ItemsLoop(s0, obj.items, 0)
    IN  PutText(s1, <<"]", "}">>).buf

(* advanced_benchmarks::manual_serialize, comprehensive_benchmark.cpp *)

manual_serialize_Person(obj) ==
    Chain(NewStream,
          << T(<<"{">> \o KeyStr(n_name)), T(obj.name), T(EndStr),
             T(KeyRaw(n_age)), I(obj.age), T(<<",">>),
             T(KeyRaw(n_salary)), D(obj.salary), T(<<",">>),
             T(KeyStr(n_department)), T(obj.department), T(EndStr),
             T(KeyRaw(n_is_active)), T(BoolLit(obj.is_active)), T(<<"}">>) >>).buf

manual_serialize_Product(obj) ==
    Chain(NewStream,
          << T(<<"{">> \o KeyStr(n_name)), T(obj.name), T(EndStr),
             T(KeyRaw(n_price)), D(obj.price), T(<<",">>),
             T(KeyRaw(n_quantity)), I(obj.quantity), T(<<",">>),
             T(KeyStr(n_category)), T(obj.category), T(EndStr),
             T(KeyRaw(n_rating)), D(obj.rating), T(<<"}">>) >>).buf

----------------------------------------------------------------------------
(* mock_serialization::ReflectionSerializer and the inline manual path of   *)
(* benchmarks::benchmark_serialization, working_reflection_demo.cpp         *)

(* the three-member Person serializer with the salary in std::fixed, 2 *)
Mock_ReflectionSerializer_Person_Fixed2(obj) ==
    Chain(NewStream,
          << T(<<"{">> \o KeyStr(n_name)), T(obj.name), T(EndStr),
             T(KeyRaw(n_age)), I(obj.age), T(<<",">>),
             T(KeyRaw(n_salary)), Fixed, Prec(2), D(obj.salary), T(<<"}">>) >>).buf

Mock_ReflectionSerializer_Person(obj) ==
    Chain(NewStream,
          << T(<<"{">> \o KeyStr(n_name)), T(obj.name), T(EndStr),
             T(KeyRaw(n_age)), I(obj.age), T(<<",">>),
             T(KeyRaw(n_salary)), D(obj.salary), T(<<"}">>) >>).buf

RECURSIVE Company_EmployeesLoop(_, _, _)
Company_EmployeesLoop(s, employees, i) ==
    IF i < Len(employees)
    THEN LET s1 == IF i > 0 THEN PutText(s, <<",">>) ELSE s
             s2 == PutText(s1, Mock_ReflectionSerializer_Person(employees[i + 1]))
         IN  Company_EmployeesLoop(s2, employees, i + 1)
    ELSE s

(* the Company serializer walking the employees from the back *)
Mock_ReflectionSerializer_Company_FromBack(obj) ==
    LET s0 == Chain(NewStream,
                    << T(<<"{">> \o KeyStr(n_name)), T(obj.name), T(EndStr),
                       T(KeyRaw(n_revenue)), D(obj.revenue), T(<<",">>),
                       T(KeyRaw(n_employees) \o <<"[">>) >>)
        n  == Len(obj.employees)
        s1 == Company_EmployeesLoop(s0, [k \in 1..n |-> obj.employees[n + 1 - k]], 0)
    IN  PutText(s1, <<"]", "}">>).buf

Mock_ReflectionSerializer_Company(obj) ==
    LET s0 == Chain(NewStream,
                    << T(<<"{">> \o KeyStr(n_name)), T(obj.name), T(EndStr),
                       T(KeyRaw(n_revenue)), D(obj.revenue), T(<<",">>),
                       T(KeyRaw(n_employees) \o <<"[">>) >>)
        s1 == Company_EmployeesLoop(s0, obj.employees, 0)
    IN  PutText(s1, <<"]", "}">>).buf

(* mock_reflection_demo.cpp, mock_serialization::ReflectionSerializer<T>:: *)
(* serialize for T = Person and for every T that is neither Person nor      *)
(* Company (no if constexpr branch is taken); the Company branch passes a   *)
(* Person to serialize(const Company&) and cannot be instantiated.          *)
MockDemo_ReflectionSerializer(type, obj) ==
    LET s0 == PutText(NewStream, <<"{">>)
        s1 == IF type = "Person3"
              THEN Chain(s0, << T(KeyStr(n_name)), T(obj.name), T(EndStr),
                                T(KeyRaw(n_age)), I(obj.age), T(<<",">>),
                                T(KeyRaw(n_salary)), D(obj.salary) >>)
              ELSE s0
    IN  PutText(s1, <<"}">>).buf

n_email == <<"e", "m", "a", "i", "l">>

(* a quotation mark or backslash of the value preceded by a backslash *)
RECURSIVE Escaped(_)
Escaped(t) ==
    IF t = <<>> THEN <<>>
    ELSE (IF Head(t) \in {Q, "\\"} THEN <<"\\", Head(t)>> ELSE <<Head(t)>>)
         \o Escaped(Tail(t))

(* to_json that escapes the text values it writes *)
Person_to_json_Escaped(obj) ==
    Chain(NewStream,
          << T(<<"{">> \o KeyStr(n_name)), T(Escaped(obj.name)), T(EndStr),
             T(KeyRaw(n_age)), I(obj.age), T(<<",">>),
             T(KeyStr(n_email)), T(Escaped(obj.email)), T(<<Q, "}">>) >>).buf

(* serialization_reflection.cpp, Person::to_json *)
Person_to_json(obj) ==
    Chain(NewStream,
          << T(<<"{">> \o KeyStr(n_name)), T(obj.name), T(EndStr),
             T(KeyRaw(n_age)), I(obj.age), T(<<",">>),
             T(KeyStr(n_email)), T(obj.email), T(<<Q, "}">>) >>).buf

(* the hand-written to_json with a blank after each colon *)
Traditional_Person_to_json_Spaced(obj) ==
    Chain(NewStream,
          << T(<<"{">> \o KeyRaw(n_name) \o <<" ", Q>>), T(obj.name), T(EndStr),
             T(KeyRaw(n_age) \o <<" ">>), I(obj.age), T(<<",">>),
             T(KeyRaw(n_email) \o <<" ", Q>>), T(obj.email), T(<<Q, "}">>) >>).buf

(* serialization_traditional.cpp, Person::to_json *)
Traditional_Person_to_json(obj) ==
    Chain(NewStream,
          << T(<<"{">> \o KeyStr(n_name)), T(obj.name), T(EndStr),
             T(KeyRaw(n_age)), I(obj.age), T(<<",">>),
             T(KeyStr(n_email)), T(obj.email), T(<<Q, "}">>) >>).buf

(* serialization_traditional.cpp, Serializer<Person>::serialize *)
Serializer_Person_serialize(person) ==
    Traditional_Person_to_json(person)

(* example_code.cpp: the data members reflection enumerates for an object, *)
(* in declaration order, each with its name, its type and its value         *)
get_data_members(type, obj) ==
    IF type = "basic_reflection::Person"
    THEN << [name |-> n_name, type |-> "std::string", value |-> obj.name],
            [name |-> n_age, type |-> "int", value |-> obj.age],
            [name |-> n_salary, type |-> "double", value |-> obj.salary] >>
    ELSE << >>

(* example_code.cpp, benchmarks::serialize_member<M>(obj, oss, first) *)
serialize_member(member, oss, first) ==
    LET s1 == IF ~first THEN PutText(oss, <<",">>) ELSE oss
        s2 == Chain(s1, << T(<<Q>>), T(member.name), T(<<Q, ":">>) >>)
    IN  [oss |-> IF member.type = "std::string"
                 THEN Chain(s2, << T(<<Q>>), T(member.value), T(<<Q>>) >>)
                 ELSE IF member.type = "int" THEN PutInt(s2, member.value)
                 ELSE PutDouble(s2, member.value),
         first |-> FALSE]

(* the fold (serialize_member<Ms>(object, stream, is_first), ...) *)
RECURSIVE MembersFold(_, _, _, _)
MembersFold(members, i, oss, first) ==
    IF i < Len(members)
    THEN LET r == serialize_member(members[i + 1], oss, first)
         IN  MembersFold(members, i + 1, r.oss, r.first)
    ELSE [oss |-> oss, first |-> first]

(* reflect_serialize whose closing brace is written with the last member *)
reflect_serialize_BraceWithLastMember(type, obj) ==
    LET members == get_data_members(type, obj)
        s0 == PutText(NewStream, <<"{">>)
        r  == MembersFold(members, 0, s0, TRUE)
    IN  IF r.first THEN r.oss.buf ELSE PutText(r.oss, <<"}">>).buf

(* example_code.cpp, benchmarks::reflect_serialize(obj) *)
reflect_serialize(type, obj) ==
    LET members == get_data_members(type, obj)
        s0 == PutText(NewStream, <<"{">>)
        r  == MembersFold(members, 0, s0, TRUE)
    IN  PutText(r.oss, <<"}">>).buf

Demo_manual_Person(person) ==
    Chain(NewStream,
          << T(<<"{">> \o KeyStr(n_name)), T(person.name), T(EndStr),
             T(KeyRaw(n_age)), I(person.age), T(<<",">>),
             T(KeyRaw(n_salary)), D(person.salary), T(<<"}">>) >>).buf

----------------------------------------------------------------------------
(* Container<T>::serialize, template_traditional.cpp.  The adjacent string  *)
(* literals of  oss << """ << element << """  concatenate to the one        *)
(* literal  " << element << "  (resp.  " << data_[i] << "), which is what   *)
(* the non-arithmetic branches insert for every element.                    *)

ElementLiteral == <<" ", "<", "<", " ", "e", "l", "e", "m", "e", "n", "t", " ", "<", "<", " ">>
DataLiteral    == <<" ", "<", "<", " ", "d", "a", "t", "a", "_", "[", "i", "]", " ", "<", "<", " ">>

serialize_element_int(s, element) == PutInt(s, element)

RECURSIVE Container_int_Loop(_, _, _)
Container_int_Loop(s, data_, i) ==
    IF i < Len(data_)
    THEN LET s1 == IF i > 0 THEN PutText(s, <<",">>) ELSE s
             s2 == serialize_element_int(s1, data_[i + 1])
         IN  Container_int_Loop(s2, data_, i + 1)
    ELSE s

Container_int_serialize(data_) ==
    PutText(Container_int_Loop(PutText(NewStream, <<"[">>), data_, 0), <<"]">>).buf

RECURSIVE Container_string_Loop(_, _, _)
Container_string_Loop(s, data_, i) ==
    IF i < Len(data_)
    THEN LET s1 == IF i > 0 THEN PutText(s, <<",">>) ELSE s
             s2 == PutText(s1, DataLiteral)
         IN  Container_string_Loop(s2, data_, i + 1)
    ELSE s

Container_string_serialize(data_) ==
    PutText(Container_string_Loop(PutText(NewStream, <<"[">>), data_, 0), <<"]">>).buf

----------------------------------------------------------------------------
(* Measured times and the statistics over them are doubles; the model       *)
(* computes them exactly: a finite value is the fraction n/d in lowest      *)
(* terms, and the two non-finite outcomes of a division are kept apart.     *)

RECURSIVE GCD(_, _)
GCD(a, b) == IF b = 0 THEN a ELSE GCD(b, a % b)

Fin(n, d) ==
    LET g == GCD(Abs(n), Abs(d))
        s == IF d < 0 THEN -1 ELSE 1
    IN  [k |-> "fin", n |-> (s * n) \div g, d |-> (s * d) \div g]

Inf(sign) == [k |-> "inf", n |-> sign, d |-> 0]
NaN       == [k |-> "nan", n |-> 0, d |-> 0]
Zero      == Fin(0, 1)
Num(i)    == Fin(i, 1)

IsFin(a) == a.k = "fin"
Sign(a)  == IF a.n < 0 THEN -1 ELSE IF a.n > 0 THEN 1 ELSE 0

DNeg(a) == [a EXCEPT !.n = -a.n]

DAdd(a, b) ==
    IF a.k = "nan" \/ b.k = "nan" THEN NaN
    ELSE IF IsFin(a) /\ IsFin(b) THEN Fin(a.n * b.d + b.n * a.d, a.d * b.d)
    ELSE IF IsFin(b) THEN a
    ELSE IF IsFin(a) THEN b
    ELSE IF a.n = b.n THEN a ELSE NaN

DSub(a, b) == DAdd(a, DNeg(b))

DMul(a, b) ==
    IF a.k = "nan" \/ b.k = "nan" THEN NaN
    ELSE IF IsFin(a) /\ IsFin(b) THEN Fin(a.n * b.n, a.d * b.d)
    ELSE IF Sign(a) = 0 \/ Sign(b) = 0 THEN NaN
    ELSE Inf(Sign(a) * Sign(b))

DDiv(a, b) ==
    IF a.k = "nan" \/ b.k = "nan" THEN NaN
    ELSE IF IsFin(a) /\ IsFin(b)
         THEN IF b.n # 0 THEN Fin(a.n * b.d, a.d * b.n)
              ELSE IF a.n = 0 THEN NaN ELSE Inf(Sign(a))
    ELSE IF IsFin(b) THEN Inf(Sign(a) * (IF b.n < 0 THEN -1 ELSE 1))
    ELSE IF IsFin(a) THEN Zero
    ELSE NaN

(* a < b and a > b; every comparison with a NaN is false *)
DLess(a, b) ==
    /\ a.k # "nan" /\ b.k # "nan"
    /\ IF IsFin(a) /\ IsFin(b) THEN a.n * b.d < b.n * a.d
       ELSE IF IsFin(a) THEN b.n > 0
       ELSE IF IsFin(b) THEN a.n < 0
       ELSE a.n < b.n

DGreater(a, b) == DLess(b, a)

(* std::sqrt of a value that is not negative; the root of n/d is kept as    *)
(* the symbol sqrt(n/d)                                                     *)
DSqrt(a) ==
    IF a.k = "nan" \/ Sign(a) < 0 THEN NaN
    ELSE IF ~IsFin(a) THEN a
    ELSE IF a.n = 0 THEN Zero
    ELSE [k |-> "sqrt", n |-> a.n, d |-> a.d]

(* duration.count() / 1000.0 : microseconds to fractional milliseconds *)
MicrosToMs(count) == DDiv(Num(count), Num(1000))

----------------------------------------------------------------------------
(* advanced_benchmarks::AdvancedBenchmark, comprehensive_benchmark.cpp *)

RECURSIVE min_element(_, _, _)
min_element(ms, i, best) ==
    IF i > Len(ms) THEN ms[best]
    ELSE min_element(ms, i + 1, IF DLess(ms[i], ms[best]) THEN i ELSE best)

RECURSIVE max_element(_, _, _)
max_element(ms, i, best) ==
    IF i > Len(ms) THEN ms[best]
    ELSE max_element(ms, i + 1, IF DLess(ms[best], ms[i]) THEN i ELSE best)

RECURSIVE accumulate(_, _, _)
accumulate(ms, i, init) ==
    IF i > Len(ms) THEN init ELSE accumulate(ms, i + 1, DAdd(init, ms[i]))

(* for (double time : measurements_) variance += (time - avg) * (time - avg) *)
RECURSIVE VarianceLoop(_, _, _, _)
VarianceLoop(ms, i, avg, variance) ==
    IF i > Len(ms) THEN variance
    ELSE VarianceLoop(ms, i + 1, avg,
                      DAdd(variance, DMul(DSub(ms[i], avg), DSub(ms[i], avg))))

BenchmarkResult(mn, mx, avg, sd, iterations, data_size) ==
    [min_time_ms |-> mn, max_time_ms |-> mx, avg_time_ms |-> avg,
     std_dev_ms |-> sd, iterations |-> iterations, data_size |-> data_size]

(* get_result with the sample divisor size - 1 in place of size *)
get_result_SampleDivisor(ms, data_size) ==
    IF ms = <<>> THEN BenchmarkResult(Zero, Zero, Zero, Zero, 0, data_size)
    ELSE
      LET sum      == accumulate(ms, 1, Zero)
          avg      == DDiv(sum, Num(Len(ms)))
          variance == DDiv(VarianceLoop(ms, 1, avg, Zero), Num(Len(ms) - 1))
      IN  BenchmarkResult(min_element(ms, 1, 1), max_element(ms, 1, 1), avg,
                          DSqrt(variance), Len(ms), data_size)

get_result(ms, data_size) ==
    IF ms = <<>> THEN BenchmarkResult(Zero, Zero, Zero, Zero, 0, data_size)
    ELSE
      LET min_it   == min_element(ms, 1, 1)
          max_it   == max_element(ms, 1, 1)
          sum      == accumulate(ms, 1, Zero)
          avg      == DDiv(sum, Num(Len(ms)))
          variance == DDiv(VarianceLoop(ms, 1, avg, Zero), Num(Len(ms)))
          std_dev  == DSqrt(variance)
      IN  BenchmarkResult(min_it, max_it, avg, std_dev, Len(ms), data_size)

----------------------------------------------------------------------------
(* The same statistics as the machine computes them.  A double is an IEEE  *)
(* 754 binary64 number; those that occur here are zero or positive and      *)
(* normal: [e, m] with m the significand as DBL_MANT_DIG bits, the leading  *)
(* one first, stands for m * 2^e, and B64Zero for 0.  Every operation       *)
(* returns the exact result rounded to nearest, ties to even.               *)

DBL_MANT_DIG == 53

B64Zero == [e |-> 0, m |-> <<>>]

ZeroBits(k) == IF k <= 0 THEN <<>> ELSE [i \in 1..k |-> 0]

RECURSIVE NatBits(_)
NatBits(n) == IF n = 0 THEN <<>> ELSE Append(NatBits(n \div 2), n % 2)

StripLeadingZeros(bits) ==
    LET ones == {k \in 1..Len(bits) : bits[k] = 1}
    IN  IF ones = {} THEN <<>>
        ELSE SubSeq(bits, CHOOSE k \in ones : \A j \in ones : k <= j, Len(bits))

(* bits + 1, for bits that are not all ones *)
Increment(bits) ==
    LET zeros == {k \in 1..Len(bits) : bits[k] = 0}
        z     == CHOOSE k \in zeros : \A j \in zeros : k >= j
    IN  [k \in 1..Len(bits) |-> IF k < z THEN bits[k] ELSE IF k = z THEN 1 ELSE 0]

(* the double nearest to bits * 2^e (plus, if sticky, a positive amount     *)
(* below 2^e), ties to even                                                 *)
B64Round(bits, e, sticky) ==
    LET b == StripLeadingZeros(bits)
        n == Len(b)
        P == DBL_MANT_DIG
    IN  IF n = 0 THEN B64Zero
        ELSE IF n <= P THEN [e |-> e - (P - n), m |-> b \o ZeroBits(P - n)]
        ELSE LET keep == SubSeq(b, 1, P)
                 rest == sticky \/ \E k \in (P + 2)..n : b[k] = 1
                 up   == b[P + 1] = 1 /\ (rest \/ keep[P] = 1)
                 e2   == e + (n - P)
             IN  IF ~up THEN [e |-> e2, m |-> keep]
                 ELSE IF \A k \in 1..P : keep[k] = 1
                      THEN [e |-> e2 + 1, m |-> <<1>> \o ZeroBits(P - 1)]
                      ELSE [e |-> e2, m |-> Increment(keep)]

(* the conversion of a non-negative integer to double *)
B64FromNat(i) == B64Round(NatBits(i), 0, FALSE)

(* A + B + carry over the bit positions lo..hi of two rows of equal length: *)
(* the sum bits of those positions and the carry out of them; the low half  *)
(* is added first and hands its carry to the high half                      *)
RECURSIVE AddBits(_, _, _, _, _)
AddBits(A, B, lo, hi, carry) ==
    IF carry \notin {0, 1} THEN [bits |-> <<>>, carry |-> carry]
    ELSE IF lo = hi
    THEN LET t == A[lo] + B[lo] + carry
         IN  [bits |-> <<t % 2>>, carry |-> t \div 2]
    ELSE LET mid  == (lo + hi) \div 2
             low  == AddBits(A, B, mid + 1, hi, carry)
             high == AddBits(A, B, lo, mid, low.carry)
         IN  [bits |-> high.bits \o low.bits, carry |-> high.carry]

(* double + double *)
B64Add(a, b) ==
    IF a = B64Zero THEN b
    ELSE IF b = B64Zero THEN a
    ELSE LET e == IF a.e < b.e THEN a.e ELSE b.e
             A == a.m \o ZeroBits(a.e - e)
             B == b.m \o ZeroBits(b.e - e)
             L == (IF Len(A) > Len(B) THEN Len(A) ELSE Len(B)) + 1
             PA == ZeroBits(L - Len(A)) \o A
             PB == ZeroBits(L - Len(B)) \o B
         IN  B64Round(AddBits(PA, PB, 1, L, 0).bits, e, FALSE)

(* long division by n over the bit positions lo..hi, entered with the     *)
(* remainder r: the quotient bits of those positions and the remainder left *)
RECURSIVE LongDivision(_, _, _, _, _)
LongDivision(bits, n, lo, hi, r) ==
    IF r >= n THEN [bits |-> <<>>, r |-> r]
    ELSE IF lo = hi
    THEN LET t == 2 * r + bits[lo]
         IN  [bits |-> <<t \div n>>, r |-> t % n]
    ELSE LET mid   == (lo + hi) \div 2
             front == LongDivision(bits, n, lo, mid, r)
             back  == LongDivision(bits, n, mid + 1, hi, front.r)
         IN  [bits |-> front.bits \o back.bits, r |-> back.r]

(* double / n for a positive integer n, which converts to double exactly *)
B64Div(a, n) ==
    IF a = B64Zero THEN B64Zero
    ELSE LET extra == Len(NatBits(n)) + 2
             q     == LongDivision(a.m \o ZeroBits(extra), n, 1,
                                   DBL_MANT_DIG + extra, 0)
         IN  B64Round(q.bits, a.e - extra, q.r # 0)

(* a < b *)
B64Less(a, b) ==
    IF b = B64Zero THEN FALSE
    ELSE IF a = B64Zero THEN TRUE
    ELSE IF a.e # b.e THEN a.e < b.e
    ELSE \E k \in 1..DBL_MANT_DIG :
             /\ a.m[k] < b.m[k]
             /\ \A j \in 1..(k - 1) : a.m[j] = b.m[j]

(* duration.count() / 1000.0 as a double: the trial whose exact value is n/d *)
Binary64(a) == B64Div(B64FromNat(a.n), a.d)

RECURSIVE B64_accumulate(_, _, _)
B64_accumulate(ms, i, init) ==
    IF i > Len(ms) THEN init ELSE B64_accumulate(ms, i + 1, B64Add(init, ms[i]))

(* AdvancedBenchmark::get_result in binary64.  The deviation is kept as     *)
(* zero or positive: time - avg is 0 only for time = avg, its square (far   *)
(* above the subnormal range for trials of microseconds) is then positive,  *)
(* and so are the sum, the quotient by size() and the root.                 *)
get_result_binary64(trials, data_size) ==
    LET ms == [i \in 1..Len(trials) |-> Binary64(trials[i])] IN
    IF ms = <<>>
    THEN BenchmarkResult(B64Zero, B64Zero, B64Zero, "zero", 0, data_size)
    ELSE
      LET min_it  == CHOOSE i \in 1..Len(ms) :
                         /\ \A j \in 1..Len(ms) : ~B64Less(ms[j], ms[i])
                         /\ \A j \in 1..(i - 1) : B64Less(ms[i], ms[j])
          max_it  == CHOOSE i \in 1..Len(ms) :
                         /\ \A j \in 1..Len(ms) : ~B64Less(ms[i], ms[j])
                         /\ \A j \in 1..(i - 1) : B64Less(ms[j], ms[i])
          sum     == B64_accumulate(ms, 1, B64Zero)
          avg     == B64Div(sum, Len(ms))
          std_dev == IF \A i \in 1..Len(ms) : ms[i] = avg THEN "zero"
                                                          ELSE "positive"
      IN  BenchmarkResult(ms[min_it], ms[max_it], avg, std_dev, Len(ms), data_size)

----------------------------------------------------------------------------
(* Instances the serializers are applied to *)

Ints    == {-7, 0, 30}
Doubles == {0, 1, -20, 600000, 9876536}   \* 0, 0.125, -2.5, 75000.0, 1234567.0

RECURSIVE SeqsUpTo(_, _)
SeqsUpTo(S, n) ==
    IF n = 0 THEN {<<>>}
    ELSE SeqsUpTo(S, n - 1) \cup
         {Append(q, x) : q \in {r \in SeqsUpTo(S, n - 1) : Len(r) = n - 1}, x \in S}

Persons ==
    [name : Texts, age : Ints, salary : Doubles, department : Texts,
     is_active : BOOLEAN]

Products ==
    [name : Texts, price : Doubles, quantity : Ints, category : Texts,
     rating : Doubles]

ItemProducts ==
    { [name |-> <<>>, price |-> 0, quantity |-> 0, category |-> <<>>, rating |-> 0],
      [name |-> <<"a">>, price |-> 1, quantity |-> 30, category |-> <<",">>,
       rating |-> 600000] }

Orders ==
    [order_id : Ints, customer_name : Texts, items : SeqsUpTo(ItemProducts, MaxItems),
     total_amount : Doubles, order_date : Texts]

Alice == [name |-> <<"A", "l", "i", "c", "e">>, age |-> 30, salary |-> 600000]

Persons3 == [name : Texts, age : Ints, salary : Doubles] \cup {Alice}

Employees == {Alice, [name |-> <<",">>, age |-> -7, salary |-> 1]}

Companies ==
    [name : Texts, employees : SeqsUpTo(Employees, MaxItems), revenue : Doubles]

----------------------------------------------------------------------------
(* text values holding a quotation mark or a backslash *)
QuotedTexts == { <<Q>>, <<"\\">>, <<"a", Q, "\\">> }

(* example_code.cpp, basic_reflection::Person *)
BasicPersons ==
    [name : Texts \cup QuotedTexts, age : {30}, salary : {0, 600000}]

(* serialization_reflection.cpp and serialization_traditional.cpp, Person *)
EmailPersons ==
    [name : Texts \cup QuotedTexts, age : {-7, 30}, email : Texts \cup QuotedTexts]

(* Serializer specification: the initial state holds the instance, each    *)
(* action is one call of a generic serializer on it together with the       *)
(* hand-written path the benchmarks run on the same object (manual stays    *)
(* empty where no hand-written path exists).                                *)

SerInputs ==
    [type : {"Person"}, obj : Persons] \cup
    [type : {"Product"}, obj : Products] \cup
    [type : {"Order"}, obj : Orders] \cup
    [type : {"Person3"}, obj : Persons3] \cup
    [type : {"Company"}, obj : Companies] \cup
    [type : {"Container<int>"}, obj : SeqsUpTo(Ints, MaxItems)] \cup
    [type : {"Container<string>"}, obj : SeqsUpTo(Texts, MaxItems)] \cup
    [type : {"int"}, obj : Ints] \cup
    [type : {"std::string"}, obj : Texts] \cup
    [type : {"Empty"}, obj : {<<>>}] \cup
    [type : {"basic_reflection::Person"}, obj : BasicPersons] \cup
    [type : {"Person{name,age,email}"}, obj : EmailPersons]

SerInit ==
    /\ call = "none"
    /\ arg \in SerInputs
    /\ json = <<>>
    /\ manual = <<>>
    /\ meta = "unset"
    /\ thrown = "none"
    /\ second = "unset"
    /\ AbIdle /\ CmpIdle /\ DemoIdle /\ ObsIdle

(* ReflectionSerializer<T>::serialize of the registered types *)
ReflectionSerializer_serialize(type, obj) ==
    CASE type = "Person"  -> ReflectionSerializer_Person(obj)
      [] type = "Product" -> ReflectionSerializer_Product(obj)
      [] type = "Order"   -> ReflectionSerializer_Order(obj)
      [] type = "Person3" -> Mock_ReflectionSerializer_Person(obj)
      [] type = "Company" -> Mock_ReflectionSerializer_Company(obj)

(* a serializer that moves the name out of the object it is given *)
SerializePerson_MovesName ==
    /\ call = "none" /\ arg.type = "Person"
    /\ call' = "Person"
    /\ json' = ReflectionSerializer_Person(arg.obj)
    /\ manual' = manual_serialize_Person(arg.obj)
    /\ arg' = [arg EXCEPT !.obj.name = <<>>]
    /\ UNCHANGED <<meta, thrown, second>>
    /\ UNCHANGED <<abVars, cmpVars, demoVars, obsVars>>

SerializePerson ==
    /\ call = "none" /\ arg.type = "Person"
    /\ call' = "Person"
    /\ json' = ReflectionSerializer_Person(arg.obj)
    /\ manual' = manual_serialize_Person(arg.obj)
    /\ UNCHANGED arg
    /\ UNCHANGED <<meta, thrown, second>>
    /\ UNCHANGED <<abVars, cmpVars, demoVars, obsVars>>

SerializeProduct ==
    /\ call = "none" /\ arg.type = "Product"
    /\ call' = "Product"
    /\ json' = ReflectionSerializer_Product(arg.obj)
    /\ manual' = manual_serialize_Product(arg.obj)
    /\ UNCHANGED arg
    /\ UNCHANGED <<meta, thrown, second>>
    /\ UNCHANGED <<abVars, cmpVars, demoVars, obsVars>>

SerializeOrder ==
    /\ call = "none" /\ arg.type = "Order"
    /\ call' = "Order"
    /\ json' = ReflectionSerializer_Order(arg.obj)
    /\ UNCHANGED <<arg, manual>>
    /\ UNCHANGED <<meta, thrown, second>>
    /\ UNCHANGED <<abVars, cmpVars, demoVars, obsVars>>

SerializePerson3 ==
    /\ call = "none" /\ arg.type = "Person3"
    /\ call' = "Person3"
    /\ json' = Mock_ReflectionSerializer_Person(arg.obj)
    /\ manual' = Demo_manual_Person(arg.obj)
    /\ UNCHANGED arg
    /\ UNCHANGED <<meta, thrown, second>>
    /\ UNCHANGED <<abVars, cmpVars, demoVars, obsVars>>

SerializeCompany ==
    /\ call = "none" /\ arg.type = "Company"
    /\ call' = "Company"
    /\ json' = Mock_ReflectionSerializer_Company(arg.obj)
    /\ UNCHANGED <<arg, manual>>
    /\ UNCHANGED <<meta, thrown, second>>
    /\ UNCHANGED <<abVars, cmpVars, demoVars, obsVars>>

SerializeContainerInt ==
    /\ call = "none" /\ arg.type = "Container<int>"
    /\ call' = "Container<int>"
    /\ json' = Container_int_serialize(arg.obj)
    /\ UNCHANGED <<arg, manual>>
    /\ UNCHANGED <<meta, thrown, second>>
    /\ UNCHANGED <<abVars, cmpVars, demoVars, obsVars>>

SerializeContainerString ==
    /\ call = "none" /\ arg.type = "Container<string>"
    /\ call' = "Container<string>"
    /\ json' = Container_string_serialize(arg.obj)
    /\ UNCHANGED <<arg, manual>>
    /\ UNCHANGED <<meta, thrown, second>>
    /\ UNCHANGED <<abVars, cmpVars, demoVars, obsVars>>

(* mock_reflection_demo.cpp: ReflectionSerializer<T>::serialize(obj) for a  *)
(* registered T (Person) and for types the file never registered            *)
SerializeMockDemo ==
    /\ call = "none" /\ arg.type \in {"Person3", "int", "std::string"}
    /\ call' = "mock_reflection_demo"
    /\ meta' = reflexpr(arg.type)
    /\ json' = MockDemo_ReflectionSerializer(arg.type, arg.obj)
    /\ thrown' = "none"
    /\ UNCHANGED <<arg, manual, second>>
    /\ UNCHANGED <<abVars, cmpVars, demoVars, obsVars>>

(* example_code.cpp: reflect_serialize(obj) for a struct without data       *)
(* members and for basic_reflection::Person                                 *)
SerializeReflect ==
    /\ call = "none" /\ arg.type \in {"Empty", "basic_reflection::Person"}
    /\ call' = "reflect_serialize"
    /\ json' = reflect_serialize(arg.type, arg.obj)
    /\ UNCHANGED <<arg, manual>>
    /\ UNCHANGED <<meta, thrown, second>>
    /\ UNCHANGED <<abVars, cmpVars, demoVars, obsVars>>

(* person.to_json() of serialization_reflection.cpp, and                   *)
(* Serializer<Person>::serialize(person) of serialization_traditional.cpp   *)
(* on a Person of the same field values                                     *)
SerializeToJson ==
    /\ call = "none" /\ arg.type = "Person{name,age,email}"
    /\ call' = "to_json"
    /\ json' = Person_to_json(arg.obj)
    /\ manual' = Serializer_Person_serialize(arg.obj)
    /\ UNCHANGED arg
    /\ UNCHANGED <<meta, thrown, second>>
    /\ UNCHANGED <<abVars, cmpVars, demoVars, obsVars>>

(* the next run of the benchmark loop serializes the same object again *)
SerializeAgain ==
    /\ call \in {"Person", "Product", "Order", "Person3", "Company"}
    /\ second = "unset"
    /\ second' = ReflectionSerializer_serialize(arg.type, arg.obj)
    /\ UNCHANGED <<call, arg, json, manual, meta, thrown>>
    /\ UNCHANGED <<abVars, cmpVars, demoVars, obsVars>>

SerNext ==
    \/ SerializePerson
    \/ SerializeProduct
    \/ SerializeOrder
    \/ SerializePerson3
    \/ SerializeCompany
    \/ SerializeContainerInt
    \/ SerializeContainerString
    \/ SerializeMockDemo
    \/ SerializeReflect
    \/ SerializeToJson
    \/ SerializeAgain

SerSpec == SerInit /\ [][SerNext]_vars

----------------------------------------------------------------------------
(* Accumulator specification: one AdvancedBenchmark object and the calls    *)
(* of its methods, a measurement being a whole number of microseconds       *)
(* divided by 1000.0.                                                       *)

TrialMicros == {0, 200, 10000, 20000, 30000}
DataSizes   == {0, 100}

AbInit == AbIdle /\ SerIdle /\ CmpIdle /\ DemoIdle /\ ObsIdle

(* what the call made next finds: the last call, its return value and the  *)
(* trials it left                                                           *)
Previous == [call |-> ab_call, ret |-> ab_ret, trials |-> measurements_]

clear ==
    /\ measurements_' = <<>>
    /\ ab_call' = "clear"
    /\ ab_ret' = "void"
    /\ ab_double' = "unset"
    /\ ab_prev' = Previous
    /\ UNCHANGED <<serVars, cmpVars, demoVars, obsVars>>

add_measurement ==
    \E count \in TrialMicros :
        /\ Len(measurements_) < MaxTrials
        /\ measurements_' = Append(measurements_, MicrosToMs(count))
        /\ ab_call' = "add_measurement"
        /\ ab_ret' = "void"
        /\ ab_double' = "unset"
        /\ ab_prev' = Previous
        /\ UNCHANGED <<serVars, cmpVars, demoVars, obsVars>>

(* a get_result that hands its trials over to the Result and keeps none *)
call_get_result_Consuming ==
    \E data_size \in DataSizes :
        /\ ab_call' = "get_result"
        /\ ab_ret' = get_result(measurements_, data_size)
        /\ ab_double' = get_result_binary64(measurements_, data_size)
        /\ ab_prev' = Previous
        /\ measurements_' = <<>>
        /\ UNCHANGED <<serVars, cmpVars, demoVars, obsVars>>

call_get_result ==
    \E data_size \in DataSizes :
        /\ ab_call' = "get_result"
        /\ ab_ret' = get_result(measurements_, data_size)
        /\ ab_double' = get_result_binary64(measurements_, data_size)
        /\ ab_prev' = Previous
        /\ UNCHANGED <<measurements_, serVars, cmpVars, demoVars, obsVars>>

AbNext == clear \/ add_measurement \/ call_get_result

AbSpec == AbInit /\ [][AbNext]_vars

----------------------------------------------------------------------------
(* AdvancedBenchmark::print_result with the quotient data_size / avg *)
print_result_PerMillisecond(result) ==
    DDiv(Num(result.data_size), result.avg_time_ms)

(* AdvancedBenchmark::print_result: of what it writes, the throughput       *)
(* result.data_size / (result.avg_time_ms / 1000.0), a double division      *)
print_result(result) ==
    DDiv(Num(result.data_size), DDiv(result.avg_time_ms, Num(1000)))

----------------------------------------------------------------------------
(* The overhead each comparison routine reports *)

(* comprehensive_benchmark.cpp, benchmark_serialization_comprehensive *)
overhead_comprehensive(reflection_avg, manual_avg) ==
    IF DGreater(manual_avg, Zero)
    THEN DMul(DSub(DDiv(reflection_avg, manual_avg), Num(1)), Num(100))
    ELSE Zero

(* working_reflection_demo.cpp, benchmarks::benchmark_serialization *)
overhead_working(reflection, manual_t) ==
    IF DGreater(manual_t, Zero)
    THEN DMul(DSub(DDiv(reflection, manual_t), Num(1)), Num(100))
    ELSE Zero

(* mock_reflection_demo.cpp, benchmarks::benchmark_serialization *)
overhead_mock(reflection, manual_t) ==
    DMul(DSub(DDiv(reflection, manual_t), Num(1)), Num(100))

(* working_reflection_demo.cpp, benchmarks::benchmark_type_analysis:        *)
(* (rtti_time > 0) ? (rtti_time / reflection_time) : 1.0                    *)
speedup_working(rtti, reflection) ==
    IF DGreater(rtti, Zero)
    THEN DDiv(rtti, reflection)
    ELSE Num(1)

(* mock_reflection_demo.cpp, benchmarks::benchmark_type_analysis:           *)
(* (rtti_time / reflection_time)                                            *)
speedup_mock(rtti, reflection) ==
    DDiv(rtti, reflection)

----------------------------------------------------------------------------
(* Comparison specification: one call of                                    *)
(* benchmark_serialization_comprehensive(objects, runs).  A range-for       *)
(* visits one object per step; each measured duration is any of a few       *)
(* microsecond counts.                                                      *)

BenchPeople ==
    { [name |-> <<"a">>, age |-> 30, salary |-> 600000, department |-> <<>>,
       is_active |-> TRUE],
      [name |-> <<>>, age |-> 0, salary |-> 1, department |-> <<",">>,
       is_active |-> FALSE] }

Datasets ==
    [type : {"Person"}, objs : SeqsUpTo(BenchPeople, MaxObjects)] \cup
    [type : {"Product"}, objs : SeqsUpTo(ItemProducts, MaxObjects)]

RunCounts == -1..MaxRuns

CmpMicros == {0, 1000, 2500}

CmpInit ==
    /\ scenario = 1
    /\ earlier_recorded = FALSE
    /\ pc = "loop_head"
    /\ objects \in Datasets
    /\ runs \in RunCounts
    /\ run = 0
    /\ pos = 0
    /\ reflection_bench = <<>>
    /\ manual_bench = <<>>
    /\ reflection_result = "unset"
    /\ manual_result = "unset"
    /\ overhead = "unset"
    /\ throughputs = "unset"
    /\ raised = "none"
    /\ reflection_seen = <<>>
    /\ manual_seen = <<>>
    /\ SerIdle /\ AbIdle /\ DemoIdle /\ ObsIdle

(* the text the generic path returns for one object of the dataset *)
generic_serialize(type, obj) ==
    IF type = "Person" THEN ReflectionSerializer_Person(obj)
    ELSE ReflectionSerializer_Product(obj)

(* for (int run = 0; run < runs; ++run) with the test run <= runs *)
LoopHead_Inclusive ==
    /\ pc = "loop_head"
    /\ IF run <= runs
       THEN /\ pc' = "reflection"
            /\ pos' = 0
            /\ reflection_seen' = <<>>
            /\ manual_seen' = <<>>
       ELSE /\ pc' = "report"
            /\ UNCHANGED <<pos, reflection_seen, manual_seen>>
    /\ UNCHANGED <<scenario, earlier_recorded, objects,
                   runs, run, reflection_bench, manual_bench,
                   reflection_result, manual_result, overhead, raised>>
    /\ UNCHANGED throughputs
    /\ UNCHANGED <<serVars, abVars, demoVars, obsVars>>

(* for (int run = 0; run < runs; ++run): the test, and the first start = now() *)
LoopHead ==
    /\ pc = "loop_head"
    /\ IF run < runs
       THEN /\ pc' = "reflection"
            /\ pos' = 0
            /\ reflection_seen' = <<>>
            /\ manual_seen' = <<>>
       ELSE /\ pc' = "report"
            /\ UNCHANGED <<pos, reflection_seen, manual_seen>>
    /\ UNCHANGED <<scenario, earlier_recorded, objects,
                   runs, run, reflection_bench, manual_bench,
                   reflection_result, manual_result, overhead, raised>>
    /\ UNCHANGED throughputs
    /\ UNCHANGED <<serVars, abVars, demoVars, obsVars>>

(* one iteration of  for (const auto& obj : objects)  on the generic path *)
ReflectionStep ==
    /\ pc = "reflection"
    /\ pos < Len(objects.objs)
    /\ LET obj == objects.objs[pos + 1]
           js  == generic_serialize(objects.type, obj)
       IN  reflection_seen' = Append(reflection_seen, obj)
    /\ pos' = pos + 1
    /\ UNCHANGED <<pc, scenario, earlier_recorded, objects,
                   runs, run, reflection_bench, manual_bench,
                   reflection_result, manual_result, overhead, raised, manual_seen>>
    /\ UNCHANGED throughputs
    /\ UNCHANGED <<serVars, abVars, demoVars, obsVars>>

(* the serialize call failing inside a try block that goes on to the report *)
ReflectionRaise_Swallowed ==
    /\ pc = "reflection"
    /\ pos < Len(objects.objs)
    /\ raised' = "std::bad_alloc"
    /\ pc' = "report"
    /\ UNCHANGED <<scenario, earlier_recorded, objects, runs, run, pos,
                   reflection_bench, manual_bench, reflection_result,
                   manual_result, overhead, reflection_seen, manual_seen>>
    /\ UNCHANGED throughputs
    /\ UNCHANGED <<serVars, abVars, demoVars, obsVars>>

(* ReflectionSerializer<T>::serialize(obj) fails to allocate its stream or  *)
(* its string: no handler in the routine or in main, so the exception       *)
(* leaves both and the local accumulators are destroyed on the way          *)
ReflectionRaise ==
    /\ pc = "reflection"
    /\ pos < Len(objects.objs)
    /\ raised' = "std::bad_alloc"
    /\ pc' = "aborted"
    /\ reflection_bench' = <<>>
    /\ manual_bench' = <<>>
    /\ UNCHANGED <<scenario, earlier_recorded, objects, runs, run, pos,
                   reflection_result, manual_result, overhead,
                   reflection_seen, manual_seen>>
    /\ UNCHANGED throughputs
    /\ UNCHANGED <<serVars, abVars, demoVars, obsVars>>

(* end of the generic pass: the duration is recorded, the clock restarted *)
ReflectionStop ==
    /\ pc = "reflection"
    /\ pos = Len(objects.objs)
    /\ \E count \in CmpMicros :
           reflection_bench' = Append(reflection_bench, MicrosToMs(count))
    /\ pc' = "manual"
    /\ pos' = 0
    /\ UNCHANGED <<scenario, earlier_recorded, objects,
                   runs, run, manual_bench, reflection_result,
                   manual_result, overhead, raised, reflection_seen, manual_seen>>
    /\ UNCHANGED throughputs
    /\ UNCHANGED <<serVars, abVars, demoVars, obsVars>>

(* the manual pass visiting the dataset from its last object to its first *)
ManualStep_Backwards ==
    /\ pc = "manual"
    /\ pos < Len(objects.objs)
    /\ manual_seen' = Append(manual_seen, objects.objs[Len(objects.objs) - pos])
    /\ pos' = pos + 1
    /\ UNCHANGED <<pc, scenario, earlier_recorded, objects,
                   runs, run, reflection_bench, manual_bench,
                   reflection_result, manual_result, overhead, raised,
                   reflection_seen>>
    /\ UNCHANGED throughputs
    /\ UNCHANGED <<serVars, abVars, demoVars, obsVars>>

(* one iteration of  for (const auto& obj : objects)  on the manual path *)
ManualStep ==
    /\ pc = "manual"
    /\ pos < Len(objects.objs)
    /\ manual_seen' = Append(manual_seen, objects.objs[pos + 1])
    /\ pos' = pos + 1
    /\ UNCHANGED <<pc, scenario, earlier_recorded, objects,
                   runs, run, reflection_bench, manual_bench,
                   reflection_result, manual_result, overhead, raised,
                   reflection_seen>>
    /\ UNCHANGED throughputs
    /\ UNCHANGED <<serVars, abVars, demoVars, obsVars>>

(* manual_serialize(obj) fails to allocate: the exception leaves the        *)
(* routine and main as above                                                *)
ManualRaise ==
    /\ pc = "manual"
    /\ pos < Len(objects.objs)
    /\ raised' = "std::bad_alloc"
    /\ pc' = "aborted"
    /\ reflection_bench' = <<>>
    /\ manual_bench' = <<>>
    /\ UNCHANGED <<scenario, earlier_recorded, objects, runs, run, pos,
                   reflection_result, manual_result, overhead,
                   reflection_seen, manual_seen>>
    /\ UNCHANGED throughputs
    /\ UNCHANGED <<serVars, abVars, demoVars, obsVars>>

(* the end of the manual pass with the add_measurement call left out *)
ManualStop_NoMeasurement ==
    /\ pc = "manual"
    /\ pos = Len(objects.objs)
    /\ run' = run + 1
    /\ pc' = "loop_head"
    /\ UNCHANGED <<scenario, earlier_recorded, objects,
                   runs, pos, reflection_bench, manual_bench,
                   reflection_result, manual_result, overhead, raised,
                   reflection_seen, manual_seen>>
    /\ UNCHANGED throughputs
    /\ UNCHANGED <<serVars, abVars, demoVars, obsVars>>

(* end of the manual pass: the duration is recorded, ++run *)
ManualStop ==
    /\ pc = "manual"
    /\ pos = Len(objects.objs)
    /\ \E count \in CmpMicros :
           manual_bench' = Append(manual_bench, MicrosToMs(count))
    /\ run' = run + 1
    /\ pc' = "loop_head"
    /\ UNCHANGED <<scenario, earlier_recorded, objects,
                   runs, pos, reflection_bench, reflection_result,
                   manual_result, overhead, raised, reflection_seen, manual_seen>>
    /\ UNCHANGED throughputs
    /\ UNCHANGED <<serVars, abVars, demoVars, obsVars>>

(* after the loop: both get_result calls and the overhead *)
Report ==
    /\ pc = "report"
    /\ reflection_result' = get_result(reflection_bench, Len(objects.objs))
    /\ manual_result' = get_result(manual_bench, Len(objects.objs))
    /\ overhead' = overhead_comprehensive(reflection_result'.avg_time_ms,
                                          manual_result'.avg_time_ms)
    /\ throughputs' = [reflection |-> print_result(reflection_result'),
                       manual |-> print_result(manual_result')]
    /\ pc' = "done"
    /\ UNCHANGED <<scenario, earlier_recorded, objects,
                   runs, run, pos, reflection_bench, manual_bench,
                   raised, reflection_seen, manual_seen>>
    /\ UNCHANGED <<serVars, abVars, demoVars, obsVars>>

(* the routine returns to main: its parameters and its Results are gone.   *)
(* What its two accumulators held is kept until the next call constructs    *)
(* its own, so that a call which did not construct them would show.         *)
Return ==
    /\ pc = "done"
    /\ pc' = "idle"
    /\ earlier_recorded' = (earlier_recorded \/ reflection_bench # <<>>)
    /\ objects' = <<>>
    /\ runs' = 0
    /\ run' = 0
    /\ pos' = 0
    /\ reflection_result' = "unset"
    /\ manual_result' = "unset"
    /\ overhead' = "unset"
    /\ throughputs' = "unset"
    /\ reflection_seen' = <<>>
    /\ manual_seen' = <<>>
    /\ UNCHANGED <<scenario, reflection_bench, manual_bench, raised>>
    /\ UNCHANGED <<serVars, abVars, demoVars, obsVars>>

(* a following call whose accumulators are the ones the call before left *)
NextScenario_SharedAccumulators ==
    /\ pc = "idle"
    /\ scenario >= 1
    /\ scenario < MaxScenarios
    /\ scenario' = scenario + 1
    /\ UNCHANGED earlier_recorded
    /\ objects' \in Datasets
    /\ runs' \in RunCounts
    /\ pc' = "loop_head"
    /\ run' = 0
    /\ pos' = 0
    /\ reflection_result' = "unset"
    /\ manual_result' = "unset"
    /\ overhead' = "unset"
    /\ throughputs' = "unset"
    /\ reflection_seen' = <<>>
    /\ manual_seen' = <<>>
    /\ UNCHANGED <<reflection_bench, manual_bench, raised>>
    /\ UNCHANGED <<serVars, abVars, demoVars, obsVars>>

(* main: the next call of benchmark_serialization_comprehensive, which     *)
(* constructs its own AdvancedBenchmark reflection_bench, manual_bench      *)
NextScenario ==
    /\ pc = "idle"
    /\ scenario >= 1
    /\ scenario < MaxScenarios
    /\ scenario' = scenario + 1
    /\ UNCHANGED earlier_recorded
    /\ objects' \in Datasets
    /\ runs' \in RunCounts
    /\ pc' = "loop_head"
    /\ run' = 0
    /\ pos' = 0
    /\ reflection_bench' = <<>>
    /\ manual_bench' = <<>>
    /\ reflection_result' = "unset"
    /\ manual_result' = "unset"
    /\ overhead' = "unset"
    /\ throughputs' = "unset"
    /\ reflection_seen' = <<>>
    /\ manual_seen' = <<>>
    /\ UNCHANGED raised
    /\ UNCHANGED <<serVars, abVars, demoVars, obsVars>>

CmpNext ==
    \/ LoopHead
    \/ ReflectionStep
    \/ ReflectionRaise
    \/ ReflectionStop
    \/ ManualStep
    \/ ManualRaise
    \/ ManualStop
    \/ Report
    \/ Return
    \/ NextScenario

CmpSpec == CmpInit /\ [][CmpNext]_vars

----------------------------------------------------------------------------
(* Demo specification: benchmarks::benchmark_serialization of               *)
(* working_reflection_demo.cpp and of mock_reflection_demo.cpp: two timed   *)
(* passes, then the overhead.                                               *)

DemoMicros == {0, 1, 500, 1000, 1500, 2000}

DemoInit ==
    /\ demo_pc = "start"
    /\ routine \in {"working_reflection_demo", "mock_reflection_demo"}
    /\ reflection_time = "unset"
    /\ manual_time = "unset"
    /\ demo_overhead = "unset"
    /\ rtti_time = "unset"
    /\ speedup = "unset"
    /\ fact = "unset"
    /\ SerIdle /\ AbIdle /\ CmpIdle /\ ObsIdle

(* bench.start(); generic pass; reflection_time = bench.stop_and_get_ms() *)
MeasureReflection ==
    /\ demo_pc = "start"
    /\ \E count \in DemoMicros : reflection_time' = MicrosToMs(count)
    /\ demo_pc' = "reflection_done"
    /\ UNCHANGED <<routine, manual_time, demo_overhead, rtti_time, speedup, fact>>
    /\ UNCHANGED <<serVars, abVars, cmpVars, obsVars>>

(* bench.start(); manual pass; manual_time = bench.stop_and_get_ms() *)
MeasureManual ==
    /\ demo_pc = "reflection_done"
    /\ \E count \in DemoMicros : manual_time' = MicrosToMs(count)
    /\ demo_pc' = "manual_done"
    /\ UNCHANGED <<routine, reflection_time, demo_overhead, rtti_time, speedup, fact>>
    /\ UNCHANGED <<serVars, abVars, cmpVars, obsVars>>

ReportOverhead_working ==
    /\ demo_pc = "manual_done"
    /\ routine = "working_reflection_demo"
    /\ demo_overhead' = overhead_working(reflection_time, manual_time)
    /\ demo_pc' = "done"
    /\ UNCHANGED <<routine, reflection_time, manual_time, rtti_time, speedup, fact>>
    /\ UNCHANGED <<serVars, abVars, cmpVars, obsVars>>

ReportOverhead_mock ==
    /\ demo_pc = "manual_done"
    /\ routine = "mock_reflection_demo"
    /\ demo_overhead' = overhead_mock(reflection_time, manual_time)
    /\ demo_pc' = "done"
    /\ UNCHANGED <<routine, reflection_time, manual_time, rtti_time, speedup, fact>>
    /\ UNCHANGED <<serVars, abVars, cmpVars, obsVars>>

(* Integers of the width of long long and of int. TLC's own integers are    *)
(* narrower than long long, so a value is the sequence of its decimal       *)
(* digits, most significant first, with its sign.                           *)
LLONG_MAX == <<9,2,2,3,3,7,2,0,3,6,8,5,4,7,7,5,8,0,7>>
INT_MAX   == <<2,1,4,7,4,8,3,6,4,7>>

IntegerOne      == [sign |-> 1, digits |-> <<1>>]
IntegerMinusOne == [sign |-> -1, digits |-> <<1>>]

(* the evaluation left the range of the type: the expression is not a       *)
(* constant expression, and the constexpr variable it initializes is        *)
(* rejected                                                                 *)
NotConstant == [sign |-> 0, digits |-> <<>>]

RECURSIVE SmallDigits(_)
SmallDigits(n) ==
    IF n = 0 THEN <<>> ELSE Append(SmallDigits(n \div 10), n % 10)

(* digits * n for 1 <= n, by the school method from the last digit *)
RECURSIVE TimesFrom(_, _, _, _)
TimesFrom(digits, n, i, carry) ==
    IF i = 0
    THEN SmallDigits(carry)
    ELSE LET p == digits[i] * n + carry
         IN  Append(TimesFrom(digits, n, i - 1, p \div 10), p % 10)

DigitsLess(a, b) ==
    \/ Len(a) < Len(b)
    \/ /\ Len(a) = Len(b)
       /\ \E i \in 1..Len(a) :
              /\ a[i] < b[i]
              /\ \A j \in 1..(i - 1) : a[j] = b[j]

(* N * value in a type whose largest value is max; N >= 2 and value >= 1    *)
(* wherever the two routines multiply                                       *)
Multiply(N, value, max) ==
    IF value = NotConstant
    THEN NotConstant
    ELSE LET product == TimesFrom(value.digits, N, Len(value.digits), 0)
         IN  IF DigitsLess(max, product)
             THEN NotConstant
             ELSE [sign |-> value.sign, digits |-> product]

(* working_reflection_demo.cpp, compile_time_test<N>::factorial():          *)
(* static constexpr long long                                               *)
RECURSIVE factorial_working(_)
factorial_working(N) ==
    IF N <= 1
    THEN IntegerOne
    ELSE IF N > 20
         THEN IntegerMinusOne
         ELSE Multiply(N, factorial_working(N - 1), LLONG_MAX)

(* mock_reflection_demo.cpp, compile_time_test<N>::factorial():             *)
(* static constexpr int                                                     *)
RECURSIVE factorial_mock(_)
factorial_mock(N) ==
    IF N <= 1
    THEN IntegerOne
    ELSE Multiply(N, factorial_mock(N - 1), INT_MAX)

(* the template arguments compile_time_test is instantiated with *)
TemplateArguments == (-1)..MaxN

(* main: benchmarks::benchmark_type_analysis(100000) follows the call of    *)
(* benchmark_serialization, whose locals are gone by then                   *)
TypeAnalysis ==
    /\ demo_pc = "done"
    /\ demo_pc' = "analysis_start"
    /\ reflection_time' = "unset"
    /\ manual_time' = "unset"
    /\ demo_overhead' = "unset"
    /\ UNCHANGED <<routine, rtti_time, speedup, fact>>
    /\ UNCHANGED <<serVars, abVars, cmpVars, obsVars>>

(* bench.start(); reflexpr queries; reflection_time = bench.stop_and_get_ms() *)
MeasureReflectionQueries ==
    /\ demo_pc = "analysis_start"
    /\ \E count \in DemoMicros : reflection_time' = MicrosToMs(count)
    /\ demo_pc' = "queries_done"
    /\ UNCHANGED <<routine, manual_time, demo_overhead, rtti_time, speedup, fact>>
    /\ UNCHANGED <<serVars, abVars, cmpVars, obsVars>>

(* bench.start(); typeid queries; rtti_time = bench.stop_and_get_ms() *)
MeasureRtti ==
    /\ demo_pc = "queries_done"
    /\ \E count \in DemoMicros : rtti_time' = MicrosToMs(count)
    /\ demo_pc' = "rtti_done"
    /\ UNCHANGED <<routine, reflection_time, manual_time, demo_overhead, speedup, fact>>
    /\ UNCHANGED <<serVars, abVars, cmpVars, obsVars>>

ReportSpeedup_working ==
    /\ demo_pc = "rtti_done"
    /\ routine = "working_reflection_demo"
    /\ speedup' = speedup_working(rtti_time, reflection_time)
    /\ demo_pc' = "analysis_done"
    /\ UNCHANGED <<routine, reflection_time, manual_time, demo_overhead, rtti_time, fact>>
    /\ UNCHANGED <<serVars, abVars, cmpVars, obsVars>>

ReportSpeedup_mock ==
    /\ demo_pc = "rtti_done"
    /\ routine = "mock_reflection_demo"
    /\ speedup' = speedup_mock(rtti_time, reflection_time)
    /\ demo_pc' = "analysis_done"
    /\ UNCHANGED <<routine, reflection_time, manual_time, demo_overhead, rtti_time, fact>>
    /\ UNCHANGED <<serVars, abVars, cmpVars, obsVars>>

(* main: compile_time_analysis::test_compile_time_performance() comes      *)
(* after the benchmarks, whose locals are gone by then                      *)
test_compile_time_performance ==
    /\ demo_pc = "analysis_done"
    /\ demo_pc' = "compile_time"
    /\ reflection_time' = "unset"
    /\ rtti_time' = "unset"
    /\ speedup' = "unset"
    /\ UNCHANGED <<routine, manual_time, demo_overhead, fact>>
    /\ UNCHANGED <<serVars, abVars, cmpVars, obsVars>>

(* the long long factorial computed in int *)
Instantiate_working_AsInt ==
    /\ demo_pc = "compile_time"
    /\ routine = "working_reflection_demo"
    /\ \E N \in TemplateArguments :
          fact' = [N |-> N, value |-> factorial_mock(N)]
    /\ demo_pc' = "instantiated"
    /\ UNCHANGED <<routine, reflection_time, manual_time, demo_overhead,
                   rtti_time, speedup>>
    /\ UNCHANGED <<serVars, abVars, cmpVars, obsVars>>

(* constexpr auto factN = compile_time_test<N>::factorial(); *)
Instantiate_working ==
    /\ demo_pc = "compile_time"
    /\ routine = "working_reflection_demo"
    /\ \E N \in TemplateArguments :
          fact' = [N |-> N, value |-> factorial_working(N)]
    /\ demo_pc' = "instantiated"
    /\ UNCHANGED <<routine, reflection_time, manual_time, demo_overhead,
                   rtti_time, speedup>>
    /\ UNCHANGED <<serVars, abVars, cmpVars, obsVars>>

Instantiate_mock ==
    /\ demo_pc = "compile_time"
    /\ routine = "mock_reflection_demo"
    /\ \E N \in TemplateArguments :
          fact' = [N |-> N, value |-> factorial_mock(N)]
    /\ demo_pc' = "instantiated"
    /\ UNCHANGED <<routine, reflection_time, manual_time, demo_overhead,
                   rtti_time, speedup>>
    /\ UNCHANGED <<serVars, abVars, cmpVars, obsVars>>

DemoNext ==
    \/ MeasureReflection
    \/ MeasureManual
    \/ ReportOverhead_working
    \/ ReportOverhead_mock
    \/ TypeAnalysis
    \/ MeasureReflectionQueries
    \/ MeasureRtti
    \/ ReportSpeedup_working
    \/ ReportSpeedup_mock
    \/ test_compile_time_performance
    \/ Instantiate_working
    \/ Instantiate_mock

DemoSpec == DemoInit /\ [][DemoNext]_vars

----------------------------------------------------------------------------
(* Observer specification: two Subject objects of pattern_reflection.cpp    *)
(* and one object of a class the observable metaclass of example_code.cpp   *)
(* was applied to.  An observer is the closure of one add_observer call,    *)
(* named by the object and the number of the call, as the [i, j] the        *)
(* benchmark's lambdas capture.                                             *)

Subjects == {"subjects[0]", "subjects[1]"}
Observables == {"person"}
SubjectStates == { <<>>, <<"a">> }
Ages == {30, 31}

(* pattern_traditional.cpp: the Subject and the Observer pointers its      *)
(* callers hold                                                             *)
TraditionalSubjects == {"subject"}
ObserverPtrs == {"nullptr", "observer0", "observer1"}

(* the DataModel of binding_traditional.cpp and the one of                  *)
(* binding_reflection.cpp, and the values their setters are given           *)
DataModels == {"binding_traditional", "binding_reflection"}
ModelNames == { <<>>, <<"a">> }
ModelValues == {0, 2}

(* models.emplace_back() value-initializes the DataModel: its class has no  *)
(* user-provided constructor, so value and active are zeroed                *)
NewDataModel == [name |-> <<>>, value |-> 0, active |-> FALSE]

NoCallbacks ==
    [name_changed_callbacks |-> <<>>, value_changed_callbacks |-> <<>>,
     active_changed_callbacks |-> <<>>]

(* each program constructs its own objects: pattern_reflection.cpp and the  *)
(* observable Person, pattern_traditional.cpp, or the two binding programs  *)
(* (which are given the same calls)                                         *)
Programs == {Subjects \cup Observables, TraditionalSubjects, DataModels}

ObsInit ==
    /\ \E objs \in Programs :
          /\ state_ = [s \in objs |->
                          IF s \in Observables THEN 30
                          ELSE IF s \in DataModels THEN NewDataModel ELSE <<>>]
          /\ observers_ = [s \in objs |->
                              IF s \in DataModels THEN NoCallbacks ELSE <<>>]
          /\ registered = [s \in objs |-> 0]
    /\ obs_call = NoCall
    /\ notified = <<>>
    /\ SerIdle /\ AbIdle /\ CmpIdle /\ DemoIdle

(* Subject::notify_observers: for (auto& observer : observers_)            *)
(* observer(state_); each invocation is logged with the argument it is      *)
(* given and the state the object holds while it runs                       *)
RECURSIVE notify_observers(_, _, _, _, _)
notify_observers(s, observers, state, i, log) ==
    IF i < Len(observers)
    THEN notify_observers(s, observers, state, i + 1,
             Append(log, [subject |-> s, observer |-> observers[i + 1],
                          arg |-> state, state |-> state]))
    ELSE log

(* the generated notify_observers: for (const auto& observer : observers_)  *)
(* observer(); the observers take no argument                               *)
RECURSIVE observable_notify_observers(_, _, _, _, _)
observable_notify_observers(s, observers, state, i, log) ==
    IF i < Len(observers)
    THEN observable_notify_observers(s, observers, state, i + 1,
             Append(log, [subject |-> s, observer |-> observers[i + 1],
                          arg |-> "none", state |-> state]))
    ELSE log

(* add_observer placing the new observer before the registered ones *)
add_observer_AtFront ==
    \E s \in (Subjects \cup Observables) \cap DOMAIN state_ :
        /\ registered[s] < MaxObservers
        /\ observers_' = [observers_ EXCEPT ![s] = << <<s, registered[s]>> >> \o @]
        /\ registered' = [registered EXCEPT ![s] = @ + 1]
        /\ obs_call' = [op |-> "add_observer", subject |-> s, arg |-> "none",
                        before |-> "none"]
        /\ notified' = <<>>
        /\ UNCHANGED state_
        /\ UNCHANGED <<serVars, abVars, cmpVars, demoVars>>

(* add_observer(observer): observers_.push_back(observer) *)
add_observer ==
    \E s \in (Subjects \cup Observables) \cap DOMAIN state_ :
        /\ registered[s] < MaxObservers
        /\ observers_' = [observers_ EXCEPT ![s] = Append(@, <<s, registered[s]>>)]
        /\ registered' = [registered EXCEPT ![s] = @ + 1]
        /\ obs_call' = [op |-> "add_observer", subject |-> s, arg |-> "none",
                        before |-> "none"]
        /\ notified' = <<>>
        /\ UNCHANGED state_
        /\ UNCHANGED <<serVars, abVars, cmpVars, demoVars>>

(* remove_observer erasing from the position to the end of the vector *)
remove_observer_ThroughEnd ==
    \E s \in Subjects \cap DOMAIN state_, index \in 0..MaxObservers :
        /\ observers_' =
               IF index < Len(observers_[s])
               THEN [observers_ EXCEPT ![s] = SubSeq(@, 1, index)]
               ELSE observers_
        /\ obs_call' = [op |-> "remove_observer", subject |-> s, arg |-> index,
                        before |-> observers_]
        /\ notified' = <<>>
        /\ UNCHANGED <<state_, registered>>
        /\ UNCHANGED <<serVars, abVars, cmpVars, demoVars>>

(* Subject::remove_observer(index): if (index < observers_.size())          *)
(* observers_.erase(observers_.begin() + index); index is a size_t, so it   *)
(* is never negative                                                        *)
remove_observer ==
    \E s \in Subjects \cap DOMAIN state_, index \in 0..MaxObservers :
        /\ observers_' =
               IF index < Len(observers_[s])
               THEN [observers_ EXCEPT ![s] =
                        SubSeq(@, 1, index) \o SubSeq(@, index + 2, Len(@))]
               ELSE observers_
        /\ obs_call' = [op |-> "remove_observer", subject |-> s, arg |-> index,
                        before |-> observers_]
        /\ notified' = <<>>
        /\ UNCHANGED <<state_, registered>>
        /\ UNCHANGED <<serVars, abVars, cmpVars, demoVars>>

(* Subject::set_state(new_state) *)
set_state ==
    \E s \in Subjects \cap DOMAIN state_, new_state \in SubjectStates :
        /\ obs_call' = [op |-> "set_state", subject |-> s, arg |-> new_state,
                        before |-> state_[s]]
        /\ IF state_[s] # new_state
           THEN /\ state_' = [state_ EXCEPT ![s] = new_state]
                /\ notified' = notify_observers(s, observers_[s], new_state, 0, <<>>)
           ELSE /\ UNCHANGED state_
                /\ notified' = <<>>
        /\ UNCHANGED <<observers_, registered>>
        /\ UNCHANGED <<serVars, abVars, cmpVars, demoVars>>

(* the generated setter set_age(value): age = value; notify_observers(); *)
set_age ==
    \E s \in Observables \cap DOMAIN state_, value \in Ages :
        /\ obs_call' = [op |-> "set_age", subject |-> s, arg |-> value,
                        before |-> state_[s]]
        /\ state_' = [state_ EXCEPT ![s] = value]
        /\ notified' = observable_notify_observers(s, observers_[s], value, 0, <<>>)
        /\ UNCHANGED <<observers_, registered>>
        /\ UNCHANGED <<serVars, abVars, cmpVars, demoVars>>

(* pattern_traditional.cpp, Subject::notify_observers: every observer that *)
(* is not null is sent update(state_), in the order of observers_           *)
RECURSIVE Traditional_notify_observers(_, _, _, _, _)
Traditional_notify_observers(s, observers, state, i, log) ==
    IF i < Len(observers)
    THEN Traditional_notify_observers(s, observers, state, i + 1,
             IF observers[i + 1] # "nullptr"
             THEN Append(log, [subject |-> s, observer |-> observers[i + 1],
                               arg |-> state, state |-> state])
             ELSE log)
    ELSE log

(* pattern_traditional.cpp, Subject::add_observer(observer) *)
Traditional_add_observer ==
    \E s \in TraditionalSubjects \cap DOMAIN state_, observer \in ObserverPtrs :
        /\ registered[s] < MaxObservers
        /\ observers_' = [observers_ EXCEPT ![s] = Append(@, observer)]
        /\ registered' = [registered EXCEPT ![s] = @ + 1]
        /\ obs_call' = [op |-> "Traditional_add_observer", subject |-> s,
                        arg |-> observer, before |-> observers_[s]]
        /\ notified' = <<>>
        /\ UNCHANGED state_
        /\ UNCHANGED <<serVars, abVars, cmpVars, demoVars>>

(* std::remove: the elements that differ from value, in their order *)
RECURSIVE std_remove(_, _)
std_remove(seq, value) ==
    IF seq = <<>> THEN <<>>
    ELSE (IF Head(seq) = value THEN <<>> ELSE <<Head(seq)>>)
             \o std_remove(Tail(seq), value)

(* pattern_traditional.cpp, Subject::remove_observer(observer) *)
Traditional_remove_observer ==
    \E s \in TraditionalSubjects \cap DOMAIN state_, observer \in ObserverPtrs :
        /\ observers_' = [observers_ EXCEPT ![s] = std_remove(@, observer)]
        /\ obs_call' = [op |-> "Traditional_remove_observer", subject |-> s,
                        arg |-> observer, before |-> observers_[s]]
        /\ notified' = <<>>
        /\ UNCHANGED <<state_, registered>>
        /\ UNCHANGED <<serVars, abVars, cmpVars, demoVars>>

(* a set_state that notifies the observers and then assigns state_ *)
Traditional_set_state_NotifyFirst ==
    \E s \in TraditionalSubjects \cap DOMAIN state_, new_state \in SubjectStates :
        /\ obs_call' = [op |-> "Traditional_set_state", subject |-> s,
                        arg |-> new_state, before |-> state_[s]]
        /\ IF state_[s] # new_state
           THEN /\ notified' = Traditional_notify_observers(s, observers_[s],
                                                           state_[s], 0, <<>>)
                /\ state_' = [state_ EXCEPT ![s] = new_state]
           ELSE /\ UNCHANGED state_
                /\ notified' = <<>>
        /\ UNCHANGED <<observers_, registered>>
        /\ UNCHANGED <<serVars, abVars, cmpVars, demoVars>>

(* pattern_traditional.cpp, Subject::set_state(new_state) *)
Traditional_set_state ==
    \E s \in TraditionalSubjects \cap DOMAIN state_, new_state \in SubjectStates :
        /\ obs_call' = [op |-> "Traditional_set_state", subject |-> s,
                        arg |-> new_state, before |-> state_[s]]
        /\ IF state_[s] # new_state
           THEN /\ state_' = [state_ EXCEPT ![s] = new_state]
                /\ notified' = Traditional_notify_observers(s, observers_[s],
                                                           new_state, 0, <<>>)
           ELSE /\ UNCHANGED state_
                /\ notified' = <<>>
        /\ UNCHANGED <<observers_, registered>>
        /\ UNCHANGED <<serVars, abVars, cmpVars, demoVars>>

(* binding_traditional.cpp, DataModel: the setters return the object as they leave it and  *)
(* the callbacks they invoked, each with the object as it runs finds it     *)
Traditional_set_name(m, obj, callbacks, new_name) ==
    IF obj.name # new_name
    THEN LET assigned == [obj EXCEPT !.name = new_name]
             list     == callbacks.name_changed_callbacks
         IN  [obj |-> assigned,
              invoked |-> [k \in 1..Len(list) |->
                              [subject |-> m, observer |-> list[k],
                               arg |-> "none", state |-> assigned]]]
    ELSE [obj |-> obj, invoked |-> <<>>]

Traditional_set_value(m, obj, callbacks, new_value) ==
    IF obj.value # new_value
    THEN LET assigned == [obj EXCEPT !.value = new_value]
             list     == callbacks.value_changed_callbacks
         IN  [obj |-> assigned,
              invoked |-> [k \in 1..Len(list) |->
                              [subject |-> m, observer |-> list[k],
                               arg |-> "none", state |-> assigned]]]
    ELSE [obj |-> obj, invoked |-> <<>>]

Traditional_set_active(m, obj, callbacks, new_active) ==
    IF obj.active # new_active
    THEN LET assigned == [obj EXCEPT !.active = new_active]
             list     == callbacks.active_changed_callbacks
         IN  [obj |-> assigned,
              invoked |-> [k \in 1..Len(list) |->
                              [subject |-> m, observer |-> list[k],
                               arg |-> "none", state |-> assigned]]]
    ELSE [obj |-> obj, invoked |-> <<>>]

Traditional_bind_name_changed(callbacks, callback) ==
    [callbacks EXCEPT !.name_changed_callbacks = Append(@, callback)]

Traditional_bind_value_changed(callbacks, callback) ==
    [callbacks EXCEPT !.value_changed_callbacks = Append(@, callback)]

Traditional_bind_active_changed(callbacks, callback) ==
    [callbacks EXCEPT !.active_changed_callbacks = Append(@, callback)]

(* binding_reflection.cpp, DataModel *)
Reflection_set_name(m, obj, callbacks, new_name) ==
    IF obj.name # new_name
    THEN LET assigned == [obj EXCEPT !.name = new_name]
             list     == callbacks.name_changed_callbacks
         IN  [obj |-> assigned,
              invoked |-> [k \in 1..Len(list) |->
                              [subject |-> m, observer |-> list[k],
                               arg |-> "none", state |-> assigned]]]
    ELSE [obj |-> obj, invoked |-> <<>>]

(* set_value walking the name callbacks after the value callbacks *)
Reflection_set_value_AlsoName(m, obj, callbacks, new_value) ==
    IF obj.value # new_value
    THEN LET assigned == [obj EXCEPT !.value = new_value]
             list     == callbacks.value_changed_callbacks \o
                         callbacks.name_changed_callbacks
         IN  [obj |-> assigned,
              invoked |-> [k \in 1..Len(list) |->
                              [subject |-> m, observer |-> list[k],
                               arg |-> "none", state |-> assigned]]]
    ELSE [obj |-> obj, invoked |-> <<>>]

Reflection_set_value(m, obj, callbacks, new_value) ==
    IF obj.value # new_value
    THEN LET assigned == [obj EXCEPT !.value = new_value]
             list     == callbacks.value_changed_callbacks
         IN  [obj |-> assigned,
              invoked |-> [k \in 1..Len(list) |->
                              [subject |-> m, observer |-> list[k],
                               arg |-> "none", state |-> assigned]]]
    ELSE [obj |-> obj, invoked |-> <<>>]

Reflection_set_active(m, obj, callbacks, new_active) ==
    IF obj.active # new_active
    THEN LET assigned == [obj EXCEPT !.active = new_active]
             list     == callbacks.active_changed_callbacks
         IN  [obj |-> assigned,
              invoked |-> [k \in 1..Len(list) |->
                              [subject |-> m, observer |-> list[k],
                               arg |-> "none", state |-> assigned]]]
    ELSE [obj |-> obj, invoked |-> <<>>]

Reflection_bind_name_changed(callbacks, callback) ==
    [callbacks EXCEPT !.name_changed_callbacks = Append(@, callback)]

Reflection_bind_value_changed(callbacks, callback) ==
    [callbacks EXCEPT !.value_changed_callbacks = Append(@, callback)]

Reflection_bind_active_changed(callbacks, callback) ==
    [callbacks EXCEPT !.active_changed_callbacks = Append(@, callback)]

(* DataModel::set_name(new_name), called on the DataModel of each program *)
set_name ==
    \E new_name \in ModelNames :
        /\ DataModels \subseteq DOMAIN state_
        /\ LET t == Traditional_set_name("binding_traditional",
                        state_["binding_traditional"],
                        observers_["binding_traditional"], new_name)
               r == Reflection_set_name("binding_reflection",
                        state_["binding_reflection"],
                        observers_["binding_reflection"], new_name)
           IN  /\ state_' = [state_ EXCEPT !["binding_traditional"] = t.obj,
                                           !["binding_reflection"] = r.obj]
               /\ notified' = t.invoked \o r.invoked
        /\ obs_call' = [op |-> "set_name", subject |-> "DataModel", arg |-> new_name,
                        before |-> state_]
        /\ UNCHANGED <<observers_, registered>>
        /\ UNCHANGED <<serVars, abVars, cmpVars, demoVars>>

(* DataModel::set_value(new_value), called on the DataModel of each program *)
set_value ==
    \E new_value \in ModelValues :
        /\ DataModels \subseteq DOMAIN state_
        /\ LET t == Traditional_set_value("binding_traditional",
                        state_["binding_traditional"],
                        observers_["binding_traditional"], new_value)
               r == Reflection_set_value("binding_reflection",
                        state_["binding_reflection"],
                        observers_["binding_reflection"], new_value)
           IN  /\ state_' = [state_ EXCEPT !["binding_traditional"] = t.obj,
                                           !["binding_reflection"] = r.obj]
               /\ notified' = t.invoked \o r.invoked
        /\ obs_call' = [op |-> "set_value", subject |-> "DataModel", arg |-> new_value,
                        before |-> state_]
        /\ UNCHANGED <<observers_, registered>>
        /\ UNCHANGED <<serVars, abVars, cmpVars, demoVars>>

(* DataModel::set_active(new_active), called on the DataModel of each program *)
set_active ==
    \E new_active \in BOOLEAN :
        /\ DataModels \subseteq DOMAIN state_
        /\ LET t == Traditional_set_active("binding_traditional",
                        state_["binding_traditional"],
                        observers_["binding_traditional"], new_active)
               r == Reflection_set_active("binding_reflection",
                        state_["binding_reflection"],
                        observers_["binding_reflection"], new_active)
           IN  /\ state_' = [state_ EXCEPT !["binding_traditional"] = t.obj,
                                           !["binding_reflection"] = r.obj]
               /\ notified' = t.invoked \o r.invoked
        /\ obs_call' = [op |-> "set_active", subject |-> "DataModel", arg |-> new_active,
                        before |-> state_]
        /\ UNCHANGED <<observers_, registered>>
        /\ UNCHANGED <<serVars, abVars, cmpVars, demoVars>>

(* DataModel::bind_name_changed(callback), called on the DataModel of each *)
(* program with the same callback: the k-th one bound to the property       *)
bind_name_changed ==
    /\ DataModels \subseteq DOMAIN state_
    /\ Len(observers_["binding_traditional"].name_changed_callbacks) < MaxObservers
    /\ LET callback ==
               <<"name", Len(observers_["binding_traditional"].name_changed_callbacks)>>
       IN  observers_' =
               [observers_ EXCEPT
                   !["binding_traditional"] = Traditional_bind_name_changed(@, callback),
                   !["binding_reflection"] = Reflection_bind_name_changed(@, callback)]
    /\ registered' = [m \in DataModels |-> registered[m] + 1]
    /\ obs_call' = [op |-> "bind_name_changed", subject |-> "DataModel",
                    arg |-> "none", before |-> observers_]
    /\ notified' = <<>>
    /\ UNCHANGED state_
    /\ UNCHANGED <<serVars, abVars, cmpVars, demoVars>>

(* DataModel::bind_value_changed(callback), called on the DataModel of each *)
(* program with the same callback: the k-th one bound to the property       *)
bind_value_changed ==
    /\ DataModels \subseteq DOMAIN state_
    /\ Len(observers_["binding_traditional"].value_changed_callbacks) < MaxObservers
    /\ LET callback ==
               <<"value", Len(observers_["binding_traditional"].value_changed_callbacks)>>
       IN  observers_' =
               [observers_ EXCEPT
                   !["binding_traditional"] = Traditional_bind_value_changed(@, callback),
                   !["binding_reflection"] = Reflection_bind_value_changed(@, callback)]
    /\ registered' = [m \in DataModels |-> registered[m] + 1]
    /\ obs_call' = [op |-> "bind_value_changed", subject |-> "DataModel",
                    arg |-> "none", before |-> observers_]
    /\ notified' = <<>>
    /\ UNCHANGED state_
    /\ UNCHANGED <<serVars, abVars, cmpVars, demoVars>>

(* DataModel::bind_active_changed(callback), called on the DataModel of each *)
(* program with the same callback: the k-th one bound to the property       *)
bind_active_changed ==
    /\ DataModels \subseteq DOMAIN state_
    /\ Len(observers_["binding_traditional"].active_changed_callbacks) < MaxObservers
    /\ LET callback ==
               <<"active", Len(observers_["binding_traditional"].active_changed_callbacks)>>
       IN  observers_' =
               [observers_ EXCEPT
                   !["binding_traditional"] = Traditional_bind_active_changed(@, callback),
                   !["binding_reflection"] = Reflection_bind_active_changed(@, callback)]
    /\ registered' = [m \in DataModels |-> registered[m] + 1]
    /\ obs_call' = [op |-> "bind_active_changed", subject |-> "DataModel",
                    arg |-> "none", before |-> observers_]
    /\ notified' = <<>>
    /\ UNCHANGED state_
    /\ UNCHANGED <<serVars, abVars, cmpVars, demoVars>>

ObsNext ==
    \/ add_observer
    \/ remove_observer
    \/ set_state
    \/ set_age
    \/ Traditional_add_observer
    \/ Traditional_remove_observer
    \/ Traditional_set_state
    \/ set_name
    \/ set_value
    \/ set_active
    \/ bind_name_changed
    \/ bind_value_changed
    \/ bind_active_changed

ObsSpec == ObsInit /\ [][ObsNext]_vars

----------------------------------------------------------------------------
(* Reading a produced text back: the top-level "key":value pairs of an      *)
(* object, in the order they appear.  A value runs to the next comma or     *)
(* closing brace outside quotation marks and outside nested brackets.       *)

CountBelow(S, k) == Cardinality({j \in S : j < k})

Kth(S, k) == CHOOSE p \in S : CountBelow(S, p) = k - 1

TopLevelFields(text) ==
    LET n      == Len(text)
        quotes == {k \in 1..n : text[k] = Q}
        \* positions outside quotation marks
        plain  == {k \in 1..n : text[k] # Q /\ CountBelow(quotes, k) % 2 = 0}
        opens  == {k \in plain : text[k] \in {"{", "["}}
        closes == {k \in plain : text[k] \in {"}", "]"}}
        \* commas directly inside the outermost braces
        seps   == {k \in plain : /\ text[k] = ","
                                 /\ CountBelow(opens, k) - CountBelow(closes, k) = 1}
        starts == {1} \cup seps
        ends   == seps \cup {n}
        Field(k) ==
            LET seg  == SubSeq(text, Kth(starts, k) + 1, Kth(ends, k) - 1)
                qs   == {m \in 2..Len(seg) : seg[m] = Q}
                stop == IF qs = {} THEN Len(seg) + 1 ELSE Kth(qs, 1)
            IN  [key |-> SubSeq(seg, 2, stop - 1),
                 value |-> SubSeq(seg, stop + 2, Len(seg))]
    IN  IF n <= 2 THEN <<>> ELSE [k \in 1..Cardinality(starts) |-> Field(k)]

TopLevelKeys(text) ==
    LET fs == TopLevelFields(text) IN [k \in 1..Len(fs) |-> fs[k].key]

IsDigit(c) == c \in {DigitChars[k] : k \in 1..10}

(* v is [-]digits.dd : exactly two digits after the decimal point *)
TwoDecimals(v) ==
    /\ Len(v) >= 4
    /\ v[Len(v) - 2] = "."
    /\ IsDigit(v[Len(v) - 1]) /\ IsDigit(v[Len(v)])
    /\ \A k \in 1..(Len(v) - 3) : IsDigit(v[k]) \/ (k = 1 /\ v[k] = "-")

(* the emitted array: from the first '[' to the last ']' of the text *)
ArrayText(text) ==
    LET opens  == {k \in 1..Len(text) : text[k] = "["}
        closes == {k \in 1..Len(text) : text[k] = "]"}
    IN  IF opens = {} \/ closes = {} THEN <<>>
        ELSE LET lo == CHOOSE k \in opens : \A m \in opens : k <= m
                 hi == CHOOSE k \in closes : \A m \in closes : k >= m
             IN  SubSeq(text, lo, hi)

ArrayBody(text) == LET a == ArrayText(text) IN SubSeq(a, 2, Len(a) - 1)

(* the commas of body that are outside every nested brace or bracket *)
SeqLevelSeparators(body) ==
    LET opens  == {k \in 1..Len(body) : body[k] \in {"{", "["}}
        closes == {k \in 1..Len(body) : body[k] \in {"}", "]"}}
    IN  Cardinality({k \in 1..Len(body) :
                        /\ body[k] = ","
                        /\ CountBelow(opens, k) = CountBelow(closes, k)})

(* the sequence field of the instance a sequence serializer was given *)
SequenceField(a) ==
    CASE a.type = "Order"   -> a.obj.items
      [] a.type = "Company" -> a.obj.employees
      [] OTHER              -> a.obj

SequenceCalls == {"Order", "Company", "Container<int>", "Container<string>"}

----------------------------------------------------------------------------
(* C1: for Person and Product the generic serializer and manual_serialize   *)
(* return the same text, character for character, for every instance.       *)
C1_GenericEqualsManual ==
    call \in {"Person", "Product"} => json = manual

(* C2: the keys of the text produced for Person, Product, Order and         *)
(* Company appear in exactly the order of get_member_names<T>().            *)
C2_KeysInRegistrationOrder ==
    call \in {"Person", "Product", "Order", "Company"}
        => TopLevelKeys(json) = get_member_names(call)

(* C3: every double member of Person, Product and Order is rendered by the  *)
(* generic serializer with exactly two digits after the decimal point.      *)
C3_TwoDecimalDigits ==
    call \in {"Person", "Product", "Order"} =>
        LET fs == TopLevelFields(json) IN
        \A k \in 1..Len(fs) :
            fs[k].key \in FloatingMembers(call) => TwoDecimals(fs[k].value)

AliceFixedText ==
    <<"{", Q, "n", "a", "m", "e", Q, ":", Q, "A", "l", "i", "c", "e", Q,
      ",", Q, "a", "g", "e", Q, ":", "3", "0", ",", Q, "s", "a", "l", "a",
      "r", "y", Q, ":", "7", "5", "0", "0", "0", ".", "0", "0", "}">>

AliceDefaultText ==
    <<"{", Q, "n", "a", "m", "e", Q, ":", Q, "A", "l", "i", "c", "e", Q,
      ",", Q, "a", "g", "e", Q, ":", "3", "0", ",", Q, "s", "a", "l", "a",
      "r", "y", Q, ":", "7", "5", "0", "0", "0", "}">>

(* C4 as stated: Person{"Alice", 30, 75000.0} serializes to                 *)
(* {"name":"Alice","age":30,"salary":75000.00}.                             *)
C4_AliceTwoDecimals ==
    (call = "Person3" /\ arg.obj = Alice) => json = AliceFixedText

(* C4 as amended: Person{"Alice", 30, 75000.0} serializes to                *)
(* {"name":"Alice","age":30,"salary":75000}, the salary in the default      *)
(* float format of the stream.                                              *)
C4_AliceDefaultFormat ==
    (call = "Person3" /\ arg.obj = Alice) => json = AliceDefaultText

C4_AliceSerialized == call = "Person3" /\ arg.obj = Alice

(* C5: a sequence of N elements is emitted between '[' and ']' with         *)
(* max(N-1, 0) separators at the sequence level; N = 0 gives exactly [],    *)
(* and no separator leads or trails.                                        *)
C5_SequenceSeparators ==
    call \in SequenceCalls =>
        LET N    == Len(SequenceField(arg))
            arr  == ArrayText(json)
            body == ArrayBody(json)
        IN  /\ Len(arr) >= 2
            /\ json[Len(json) - (IF call \in {"Order", "Company"} THEN 1 ELSE 0)] = "]"
            /\ SeqLevelSeparators(body) = (IF N = 0 THEN 0 ELSE N - 1)
            /\ (N = 0) <=> (arr = <<"[", "]">>)
            /\ N > 0 => body[1] # "," /\ body[Len(body)] # ","

C5_SeveralElements ==
    call \in SequenceCalls /\ Len(SequenceField(arg)) >= 2

----------------------------------------------------------------------------
(* Sums the statistics are stated with *)

RECURSIVE SumTo(_, _)
SumTo(ms, n) == IF n = 0 THEN Zero ELSE DAdd(SumTo(ms, n - 1), ms[n])

RECURSIVE SquaredDeviationsTo(_, _, _)
SquaredDeviationsTo(ms, n, mean) ==
    IF n = 0 THEN Zero
    ELSE DAdd(SquaredDeviationsTo(ms, n - 1, mean),
              DMul(DSub(ms[n], mean), DSub(ms[n], mean)))

IsPrefix(p, q) == Len(p) <= Len(q) /\ p = SubSeq(q, 1, Len(p))

(* C6: over a non-empty list of trials get_result returns the smallest and  *)
(* the largest trial, mean = sum / count and the population standard        *)
(* deviation sqrt(sum((t - mean)^2) / count); for [10, 20, 30] that is      *)
(* 10, 30, 20 and sqrt(200/3).                                              *)
C6_Statistics ==
    (ab_call = "get_result" /\ measurements_ # <<>>) =>
        LET ms   == measurements_
            n    == Len(ms)
            r    == ab_ret
            mean == DDiv(SumTo(ms, n), Num(n))
        IN  /\ \E i \in 1..n : r.min_time_ms = ms[i]
            /\ \A i \in 1..n : ~DLess(ms[i], r.min_time_ms)
            /\ \E i \in 1..n : r.max_time_ms = ms[i]
            /\ \A i \in 1..n : ~DLess(r.max_time_ms, ms[i])
            /\ r.avg_time_ms = mean
            /\ r.std_dev_ms = DSqrt(DDiv(SquaredDeviationsTo(ms, n, mean), Num(n)))
            /\ ms = <<Num(10), Num(20), Num(30)>> =>
                   /\ r.min_time_ms = Num(10)
                   /\ r.max_time_ms = Num(30)
                   /\ r.avg_time_ms = Num(20)
                   /\ r.std_dev_ms = [k |-> "sqrt", n |-> 200, d |-> 3]

C6_TenTwentyThirty ==
    ab_call = "get_result" /\ measurements_ = <<Num(10), Num(20), Num(30)>>

(* C7 as stated: a run count of 0 or less fails with                        *)
(* InvalidConfigurationError and no Result is computed from zero trials.    *)
C7_ZeroTrialsRejected ==
    (pc \in {"report", "done"} /\ runs <= 0) =>
        /\ raised = "InvalidConfigurationError"
        /\ reflection_result = "unset"
        /\ manual_result = "unset"

(* C7 as amended: with a run count of 0 or less the routine raises nothing; *)
(* its loop body never runs and both Results are the all-zero Result with   *)
(* iterations = 0 and data_size = n, the reported overhead being 0.         *)
C7_ZeroTrialsZeroResult ==
    /\ (runs <= 0 /\ pc # "idle") =>
           /\ pc \in {"loop_head", "report", "done"}
           /\ raised = "none"
           /\ reflection_bench = <<>> /\ manual_bench = <<>>
    /\ (runs <= 0 /\ pc = "done") =>
           LET zero == BenchmarkResult(Zero, Zero, Zero, Zero, 0, Len(objects.objs))
           IN  /\ reflection_result = zero
               /\ manual_result = zero
               /\ overhead = Zero

C7_ZeroRunsReported == pc = "done" /\ runs = 0 /\ Len(objects.objs) >= 1

(* C8: every routine reports (generic / specialized - 1) * 100 when the     *)
(* specialized time is greater than 0 and 0 when it is 0; none divides by   *)
(* a zero specialized time.                                                 *)
C8_OverheadGuarded ==
    demo_pc = "done" =>
        IF DGreater(manual_time, Zero)
        THEN demo_overhead =
                 DMul(DSub(DDiv(reflection_time, manual_time), Num(1)), Num(100))
        ELSE demo_overhead = Zero

(* C9: each loop iteration appends one trial to each accumulator, and for   *)
(* r >= 1 runs over n objects both Results have data_size = n and           *)
(* iterations = r.                                                          *)
C9_TrialCounts ==
    /\ pc = "loop_head" => Len(reflection_bench) = run /\ Len(manual_bench) = run
    /\ pc = "manual" => Len(reflection_bench) = run + 1 /\ Len(manual_bench) = run
    /\ (pc = "done" /\ runs >= 1) =>
           /\ reflection_result.data_size = Len(objects.objs)
           /\ manual_result.data_size = Len(objects.objs)
           /\ reflection_result.iterations = runs
           /\ manual_result.iterations = runs

C9_SeveralRunsReported ==
    pc = "done" /\ runs >= 2 /\ Len(objects.objs) >= 1

(* C10: in every trial both passes visit the same dataset in the same       *)
(* element order, and the dataset keeps its length, order and contents      *)
(* from the start of the comparison to its end.                             *)
C10_Visits ==
    pc # "idle" =>
        /\ IsPrefix(reflection_seen, objects.objs)
        /\ IsPrefix(manual_seen, objects.objs)
        /\ Len(manual_seen) <= Len(reflection_seen)
        /\ pc = "manual" => reflection_seen = objects.objs
        /\ (pc \in {"loop_head", "report", "done"} /\ run > 0) =>
               reflection_seen = objects.objs /\ manual_seen = objects.objs

C10_SameDatasetSameOrder ==
    [](C10_Visits) /\ [][pc \notin {"idle", "done"} => objects' = objects]_vars

C10_TwoDistinctObjectsCompared ==
    /\ pc = "done" /\ run >= 1
    /\ Len(objects.objs) >= 2
    /\ objects.objs[1] # objects.objs[2]

(* C11: every call of the comparison routine starts with two empty         *)
(* accumulators, holds at each moment exactly the trials of its own runs,   *)
(* and reports Results whose trial count is the number of runs of this      *)
(* call, whatever the calls before it recorded.                             *)
C11_OwnTrials ==
    /\ (pc = "loop_head" /\ run = 0) =>
           (reflection_bench = <<>> /\ manual_bench = <<>>)
    /\ pc \in {"loop_head", "reflection", "manual", "report", "done"} =>
           /\ Len(manual_bench) = run
           /\ Len(reflection_bench) = run + (IF pc = "manual" THEN 1 ELSE 0)
    /\ pc = "done" =>
           /\ reflection_result.iterations = (IF runs > 0 THEN runs ELSE 0)
           /\ manual_result.iterations = (IF runs > 0 THEN runs ELSE 0)
           /\ reflection_result = get_result(reflection_bench, Len(objects.objs))
           /\ manual_result = get_result(manual_bench, Len(objects.objs))

C11_FreshAccumulators ==
    [](C11_OwnTrials) /\
    [][scenario' # scenario =>
          (reflection_bench' = <<>> /\ manual_bench' = <<>> /\
           reflection_result' = "unset" /\ manual_result' = "unset")]_vars

(* a later call has reported its Results after earlier calls recorded trials *)
C11_LaterScenarioReported ==
    /\ scenario > 1
    /\ earlier_recorded
    /\ pc = "done"
    /\ runs > 0

(* the types mock_reflection_demo.cpp registers *)
Registered == {"Person3", "Company"}

(* C12 as stated: serializing a type that was never registered fails with  *)
(* UnknownTypeError and yields neither a descriptor nor a text.             *)
C12_UnknownTypeRejected ==
    (call = "mock_reflection_demo" /\ arg.type \notin Registered) =>
        /\ thrown = "UnknownTypeError"
        /\ meta = "unset"
        /\ json = <<>>

(* C12 amended: for a type that was never registered no error is raised:   *)
(* reflexpr returns the descriptor named Unknown with member_count 0, the   *)
(* member list is empty, and the serializer of mock_reflection_demo.cpp     *)
(* returns the text {}.                                                     *)
C12_UnknownTypeDescriptor ==
    (call = "mock_reflection_demo" /\ arg.type \notin Registered) =>
        /\ thrown = "none"
        /\ meta.type_name = "Unknown"
        /\ meta.member_count = 0
        /\ meta.is_class_type = (arg.type = "std::string")
        /\ get_member_names(arg.type) = <<>>
        /\ json = <<"{", "}">>

C12_UnregisteredSerialized ==
    /\ call = "mock_reflection_demo"
    /\ arg.type = "std::string"
    /\ arg.obj # <<>>

(* C13: once a measured operation has raised, the routine is left with    *)
(* the exception: it never reaches its report, so no Result and no          *)
(* overhead is computed from the trials recorded before the failure, and    *)
(* no later step runs.                                                      *)
C13_NoPartialResult ==
    raised # "none" =>
        /\ pc = "aborted"
        /\ reflection_result = "unset"
        /\ manual_result = "unset"
        /\ overhead = "unset"
        /\ throughputs = "unset"

C13_AbortPropagates ==
    [](C13_NoPartialResult) /\ [][raised = "none"]_vars

(* a measured operation raised after complete trials had been recorded *)
C13_RaisedAfterTrials ==
    /\ raised # "none"
    /\ run >= 1

(* C14: a record type with zero fields serializes to exactly {} : the     *)
(* opening brace directly followed by the closing brace.                    *)
C14_EmptyRecord ==
    /\ (call = "reflect_serialize" /\ get_data_members(arg.type, arg.obj) = <<>>)
           => json = <<"{", "}">>
    /\ (call = "mock_reflection_demo" /\ get_member_names(arg.type) = <<>>)
           => json = <<"{", "}">>

C14_EmptyRecordSerialized ==
    /\ call = "reflect_serialize"
    /\ arg.type = "Empty"

(* C15: no serializer call changes the instance it is given (its fields,   *)
(* its nested objects, the elements of its sequences), and a second call    *)
(* on the same instance returns the text the first call returned.           *)
C15_SecondCallSameText ==
    second # "unset" => second = json

C16_NotifiedInRegistrationOrder ==
    (obs_call.op \in {"set_state", "set_age"} /\ obs_call.before # obs_call.arg) =>
        LET s == obs_call.subject IN
        /\ state_[s] = obs_call.arg
        /\ Len(notified) = Len(observers_[s])
        /\ \A k \in 1..Len(notified) :
               /\ notified[k].observer = observers_[s][k]
               /\ notified[k].subject = s
               /\ notified[k].observer[1] = s
               /\ notified[k].state = obs_call.arg
               /\ obs_call.op = "set_state" => notified[k].arg = obs_call.arg
        /\ \A k, l \in 1..Len(notified) :
               k < l => notified[k].observer[2] < notified[l].observer[2]
        /\ \A o \in Subjects \cup Observables :
               o # s => \A k \in 1..Len(notified) :
                           \A j \in 1..Len(observers_[o]) :
                               notified[k].observer # observers_[o][j]

(* a Subject with two observers changed state while the other Subject had   *)
(* an observer of its own                                                   *)
C16_TwoObserversNotified ==
    /\ obs_call.op = "set_state"
    /\ Len(notified) = 2
    /\ \E o \in Subjects : o # obs_call.subject /\ observers_[o] # <<>>

StartsWith(text, p) ==
    Len(text) >= Len(p) /\ SubSeq(text, 1, Len(p)) = p

EndsWith(text, p) ==
    Len(text) >= Len(p) /\ SubSeq(text, Len(text) - Len(p) + 1, Len(text)) = p

(* a text value between two quotation marks, its characters as they are *)
Quoted(value) == <<Q>> \o value \o <<Q>>

NameKey == <<"{", Q, "n", "a", "m", "e", Q, ":">>
EmailKey == <<",", Q, "e", "m", "a", "i", "l", Q, ":">>
DepartmentKey == <<",", Q, "d", "e", "p", "a", "r", "t", "m", "e", "n", "t", Q, ":">>
AgeKey == <<",", Q, "a", "g", "e", Q, ":">>

(* C17: every text field is written as a quotation mark, the characters of *)
(* the value unchanged (a quotation mark or a backslash among them too),    *)
(* and a quotation mark.                                                    *)
C17_TextVerbatim ==
    /\ call = "Person" =>
           /\ StartsWith(json, NameKey \o Quoted(arg.obj.name) \o <<",">>)
           /\ EndsWith(json, DepartmentKey \o Quoted(arg.obj.department)
                                \o <<",", Q, "i", "s", "_", "a", "c", "t", "i",
                                     "v", "e", Q, ":">>
                                \o BoolLit(arg.obj.is_active) \o <<"}">>)
    /\ call = "to_json" =>
           json = NameKey \o Quoted(arg.obj.name) \o AgeKey \o IntText(arg.obj.age)
                  \o EmailKey \o Quoted(arg.obj.email) \o <<"}">>
    /\ (call = "reflect_serialize" /\ arg.type = "basic_reflection::Person") =>
           StartsWith(json, NameKey \o Quoted(arg.obj.name) \o AgeKey)

(* a name holding a quotation mark and a backslash has been serialized *)
C17_QuoteAndBackslashSerialized ==
    /\ call = "to_json"
    /\ arg.obj.name = <<"a", Q, "\\">>
    /\ arg.obj.email = <<Q>>

(* the throughput of one Result is data_size / (mean / 1000): times the    *)
(* mean in seconds it gives data_size back; with a mean of 0 the double     *)
(* quotient is +infinity for a non-empty dataset and not-a-number for an    *)
(* empty one                                                                *)
ThroughputOf(result, throughput) ==
    IF result.avg_time_ms = Zero
    THEN throughput = (IF result.data_size > 0 THEN Inf(1) ELSE NaN)
    ELSE /\ IsFin(throughput)
         /\ DMul(throughput, DDiv(result.avg_time_ms, Num(1000)))
                = Num(result.data_size)

(* C18: the throughput reported with every Result is                       *)
(* data_size / (mean_ms / 1000), for a Result of mean 0 and for one built   *)
(* from no trials as well.                                                  *)
C18_Throughput ==
    pc = "done" =>
        /\ ThroughputOf(reflection_result, throughputs.reflection)
        /\ ThroughputOf(manual_result, throughputs.manual)

(* Results of a non-empty dataset reported with a mean of 0 from trials,    *)
(* and with a positive mean                                                 *)
C18_ZeroAndPositiveMean ==
    /\ pc = "done"
    /\ Len(objects.objs) > 0
    /\ reflection_result.iterations > 0
    /\ reflection_result.avg_time_ms = Zero
    /\ manual_result.avg_time_ms # Zero

PairwiseDistinct(seq) ==
    \A k, l \in 1..Len(seq) : k # l => seq[k] # seq[l]

RegisteredTypes == {"Person", "Product", "Order", "Person3", "Company"}

(* C19: the member names get_member_names<T>() lists for Person, Product,  *)
(* Order and Company (both Person structs) are pairwise distinct, and no    *)
(* key occurs twice at the top level of the text produced for the type.     *)
C19_DistinctNamesAndKeys ==
    /\ \A type \in RegisteredTypes : PairwiseDistinct(get_member_names(type))
    /\ call \in RegisteredTypes =>
           /\ Len(TopLevelKeys(json)) = Len(get_member_names(call))
           /\ PairwiseDistinct(TopLevelKeys(json))

(* an Order whose items repeat the keys one level down has been serialized *)
C19_OrderWithItemsSerialized ==
    /\ call = "Order"
    /\ Len(arg.obj.items) >= 2
    /\ Len(TopLevelKeys(json)) = Len(get_member_names("Order"))

(* C20: for every Person{name, age, email} the hand-written baseline       *)
(* Serializer<Person>::serialize of serialization_traditional.cpp returns   *)
(* exactly the text Person::to_json of serialization_reflection.cpp         *)
(* returns.                                                                 *)
C20_BaselineEqualsToJson ==
    call = "to_json" => manual = json

(* both paths have serialized a Person with a negative age and non-empty    *)
(* name and email                                                           *)
C20_BothPathsSerialized ==
    /\ call = "to_json"
    /\ arg.obj.age < 0
    /\ arg.obj.name # <<>>
    /\ arg.obj.email # <<>>
    /\ manual # <<>>

(* the set of the entries of a sequence *)
Range(seq) == {seq[k] : k \in 1..Len(seq)}

(* C21: for Person, Product, Order and Company (both Person structs) the   *)
(* keys at the top level of the produced text are, as a set, the names of   *)
(* get_member_names<T>(): every registered name is a key exactly once and   *)
(* no other key is written.                                                 *)
C21_KeySetIsMemberSet ==
    call \in RegisteredTypes =>
        LET keys  == TopLevelKeys(json)
            names == get_member_names(call)
        IN  /\ Range(keys) = Range(names)
            /\ \A m \in 1..Len(names) :
                   Cardinality({k \in 1..Len(keys) : keys[k] = names[m]}) = 1

(* a Company with employees has been serialized, its keys in another order *)
(* than its registered members                                              *)
C21_ReorderedKeysSerialized ==
    /\ call = "Company"
    /\ arg.obj.employees # <<>>
    /\ TopLevelKeys(json) # get_member_names("Company")
    /\ Len(TopLevelKeys(json)) = 3

(* the entries of an emitted array body: the texts between the commas    *)
(* that are outside every nested brace or bracket                           *)
ArrayEntries(body) ==
    LET n      == Len(body)
        opens  == {k \in 1..n : body[k] \in {"{", "["}}
        closes == {k \in 1..n : body[k] \in {"}", "]"}}
        seps   == {k \in 1..n : /\ body[k] = ","
                                /\ CountBelow(opens, k) = CountBelow(closes, k)}
        starts == {0} \cup seps
        ends   == seps \cup {n + 1}
    IN  IF n = 0 THEN <<>>
        ELSE [k \in 1..Cardinality(starts) |->
                 SubSeq(body, Kth(starts, k) + 1, Kth(ends, k) - 1)]

(* the serializer of the element type of the sequence field *)
ElementText(type, element) ==
    IF type = "Order" THEN ReflectionSerializer_Product(element)
                      ELSE Mock_ReflectionSerializer_Person(element)

(* C22: the array written for Order.items and Company.employees has one     *)
(* entry per element, and its k-th entry is exactly the text the element    *)
(* type's own serializer returns for the k-th element of the sequence.      *)
C22_EntriesAreElementTexts ==
    call \in {"Order", "Company"} =>
        LET entries  == ArrayEntries(ArrayBody(json))
            elements == SequenceField(arg)
        IN  /\ Len(entries) = Len(elements)
            /\ \A k \in 1..Len(elements) :
                   entries[k] = ElementText(call, elements[k])

(* a Company with two different employees, one named with a comma, has     *)
(* been serialized                                                          *)
C22_TwoDifferentEmployeesSerialized ==
    /\ call = "Company"
    /\ Len(arg.obj.employees) = 2
    /\ arg.obj.employees[1] # arg.obj.employees[2]
    /\ arg.obj.employees[2].name = <<",">>
    /\ Len(ArrayEntries(ArrayBody(json))) = 2

(* C23: get_result leaves the trials as it found them, and a get_result   *)
(* that directly follows another with the same data_size returns an equal   *)
(* Result; add_measurement leaves the trials it found followed by exactly   *)
(* one more; clear leaves none.                                             *)
C23_OnlyReads ==
    /\ ab_call = "get_result" =>
           /\ measurements_ = ab_prev.trials
           /\ (ab_prev.call = "get_result" /\
               ab_prev.ret.data_size = ab_ret.data_size) => ab_ret = ab_prev.ret
    /\ ab_call = "add_measurement" =>
           /\ Len(measurements_) = Len(ab_prev.trials) + 1
           /\ SubSeq(measurements_, 1, Len(ab_prev.trials)) = ab_prev.trials
    /\ ab_call = "clear" => measurements_ = <<>>

(* get_result has been called twice in a row with the same data_size on    *)
(* trials that are not all equal                                            *)
C23_TwoResultsInARow ==
    /\ ab_call = "get_result"
    /\ ab_prev.call = "get_result"
    /\ ab_prev.ret.data_size = ab_ret.data_size
    /\ Len(measurements_) >= 2
    /\ measurements_[1] # measurements_[2]
    /\ ab_ret.iterations = Len(measurements_)

(* C24: for a non-empty list of (non-negative) trials the Result has       *)
(* min <= mean <= max and a deviation >= 0 that is 0 exactly when all       *)
(* trials are equal; for no trials it is all zero with iterations 0 and     *)
(* the data_size given.                                                     *)
C24_MeanBetweenMinAndMax ==
    ab_call = "get_result" =>
        LET r  == ab_double
            ms == measurements_
        IN  IF ms = <<>>
            THEN /\ r.min_time_ms = B64Zero /\ r.max_time_ms = B64Zero
                 /\ r.avg_time_ms = B64Zero /\ r.std_dev_ms = "zero"
                 /\ r.iterations = 0
                 /\ r.data_size = ab_ret.data_size
            ELSE /\ ~B64Less(r.avg_time_ms, r.min_time_ms)
                 /\ ~B64Less(r.max_time_ms, r.avg_time_ms)
                 /\ r.std_dev_ms \in {"zero", "positive"}
                 /\ r.std_dev_ms = "zero" <=>
                        \A i, j \in 1..Len(ms) : ms[i] = ms[j]

(* the data member a DataModel setter assigns, and its callback list *)
PropertyOf(op) ==
    CASE op = "set_name"   -> "name"
      [] op = "set_value"  -> "value"
      [] op = "set_active" -> "active"

CallbacksOf(op) ==
    CASE op = "set_name"   -> "name_changed_callbacks"
      [] op = "set_value"  -> "value_changed_callbacks"
      [] op = "set_active" -> "active_changed_callbacks"

(* the invocations of the last call that belong to object m *)
InvokedOn(m) == SelectSeq(notified, LAMBDA e : e.subject = m)

(* C25: a set_state of either Subject and a setter of either DataModel     *)
(* given the value the object already holds leaves the object as it was     *)
(* and invokes nothing; given another value it stores the value, and every  *)
(* observer or callback it then invokes finds the new value stored.         *)
C25_NotifyOnlyOnChange ==
    /\ obs_call.op \in {"set_state", "Traditional_set_state"} =>
           LET s == obs_call.subject IN
           IF obs_call.arg = obs_call.before
           THEN state_[s] = obs_call.before /\ notified = <<>>
           ELSE /\ state_[s] = obs_call.arg
                /\ Len(notified) =
                       Cardinality({k \in 1..Len(observers_[s]) :
                                       observers_[s][k] # "nullptr"})
                /\ \A k \in 1..Len(notified) :
                       /\ notified[k].state = obs_call.arg
                       /\ notified[k].arg = obs_call.arg
    /\ obs_call.op \in {"set_name", "set_value", "set_active"} =>
           \A m \in DataModels :
               LET property == PropertyOf(obs_call.op)
                   list     == observers_[m][CallbacksOf(obs_call.op)]
               IN  IF obs_call.arg = obs_call.before[m][property]
                   THEN state_[m] = obs_call.before[m] /\ InvokedOn(m) = <<>>
                   ELSE /\ state_[m][property] = obs_call.arg
                        /\ Len(InvokedOn(m)) = Len(list)
                        /\ \A k \in 1..Len(InvokedOn(m)) :
                               InvokedOn(m)[k].state = state_[m]

(* set_value was given the value a DataModel with a bound value callback   *)
(* already holds                                                            *)
C25_SameValueSet ==
    /\ obs_call.op = "set_value"
    /\ \A m \in DataModels :
           /\ obs_call.arg = obs_call.before[m].value
           /\ observers_[m].value_changed_callbacks # <<>>
    /\ notified = <<>>

BoundListOf(op) ==
    CASE op = "bind_name_changed"   -> "name_changed_callbacks"
      [] op = "bind_value_changed"  -> "value_changed_callbacks"
      [] op = "bind_active_changed" -> "active_changed_callbacks"

CallbackLists ==
    {"name_changed_callbacks", "value_changed_callbacks", "active_changed_callbacks"}

InvocationsOf(m) ==
    LET on == InvokedOn(m)
    IN  [k \in 1..Len(on) |-> [observer |-> on[k].observer, state |-> on[k].state]]

(* C27: every step of the two DataModels (binding_traditional.cpp and       *)
(* binding_reflection.cpp, given the same call). A setter invokes callbacks *)
(* of its own property only, exactly those bound to it and in the order     *)
(* they were bound when the value changes, leaves the two other data        *)
(* members and all three callback lists as they were; a bind_* call appends *)
(* one callback to its own list, leaves the two other lists and the data    *)
(* members as they were and invokes nothing; and after every call the two   *)
(* DataModels hold the same members, the same lists and have invoked the    *)
(* same callbacks in the same order.                                        *)
C27_OnlyThatPropertysCallbacks ==
    [][DataModels \subseteq DOMAIN state_ =>
          LET op == obs_call'.op
          IN  /\ op \in {"set_name", "set_value", "set_active"} =>
                    /\ observers_' = observers_
                    /\ \A m \in DataModels :
                          /\ \A member \in {"name", "value", "active"} \ {PropertyOf(op)} :
                                 state_'[m][member] = state_[m][member]
                          /\ state_'[m][PropertyOf(op)] = obs_call'.arg
                          /\ \A k \in 1..Len(InvocationsOf(m)') :
                                 InvocationsOf(m)'[k].observer[1] = PropertyOf(op)
                          /\ IF state_[m][PropertyOf(op)] # obs_call'.arg
                             THEN [k \in 1..Len(InvocationsOf(m)') |->
                                      InvocationsOf(m)'[k].observer]
                                  = observers_[m][CallbacksOf(op)]
                             ELSE InvocationsOf(m)' = <<>>
              /\ op \in {"bind_name_changed", "bind_value_changed",
                          "bind_active_changed"} =>
                    /\ state_' = state_
                    /\ notified' = <<>>
                    /\ \A m \in DataModels :
                          /\ \A list \in CallbackLists \ {BoundListOf(op)} :
                                 observers_'[m][list] = observers_[m][list]
                          /\ Len(observers_'[m][BoundListOf(op)])
                                 = Len(observers_[m][BoundListOf(op)]) + 1
                          /\ SubSeq(observers_'[m][BoundListOf(op)], 1,
                                    Len(observers_[m][BoundListOf(op)]))
                                 = observers_[m][BoundListOf(op)]
              /\ state_'["binding_reflection"] = state_'["binding_traditional"]
              /\ observers_'["binding_reflection"] = observers_'["binding_traditional"]
              /\ InvocationsOf("binding_reflection")'
                     = InvocationsOf("binding_traditional")'
    ]_vars

(* set_value changed the value of DataModels that have callbacks bound to   *)
(* all three properties: the value callbacks ran, on both                   *)
C27_ValueChangedWithAllBound ==
    /\ obs_call.op = "set_value"
    /\ \A m \in DataModels :
          /\ obs_call.arg # obs_call.before[m].value
          /\ \A list \in CallbackLists : observers_[m][list] # <<>>
          /\ Len(observers_[m].value_changed_callbacks) = 2
          /\ Len(InvokedOn(m)) = 2

(* C28: benchmark_type_analysis of both demo files reports a finite         *)
(* speedup for every pair of measured times, a reflection_time of 0         *)
(* included.                                                                *)
C28_SpeedupFinite ==
    demo_pc = "analysis_done" => IsFin(speedup)

(* N! as a digit sequence, with no type's range in the way *)
ExactTimes(digits, N) ==
    IF digits = <<>> THEN <<>> ELSE TimesFrom(digits, N, Len(digits), 0)

RECURSIVE ExactFactorial(_)
ExactFactorial(N) ==
    IF N <= 1 THEN <<1>> ELSE ExactTimes(ExactFactorial(N - 1), N)

(* C29: compile_time_test<N>::factorial() of working_reflection_demo.cpp   *)
(* is 1 for N <= 1, N! within the range of long long for 2 <= N <= 20       *)
(* (20! = 2432902008176640000) and -1 for N > 20; the int version of        *)
(* mock_reflection_demo.cpp is N! within the range of int for the           *)
(* arguments it is instantiated with, 5, 10 and 12 (12! = 479001600).       *)
C29_FactorialInRange ==
    demo_pc = "instantiated" =>
        /\ routine = "working_reflection_demo" =>
               /\ fact.N <= 1 => fact.value = IntegerOne
               /\ (fact.N >= 2 /\ fact.N <= 20) =>
                      /\ fact.value = [sign |-> 1, digits |-> ExactFactorial(fact.N)]
                      /\ ~DigitsLess(LLONG_MAX, fact.value.digits)
               /\ fact.N = 20 =>
                      fact.value.digits = <<2,4,3,2,9,0,2,0,0,8,1,7,6,6,4,0,0,0,0>>
               /\ fact.N > 20 => fact.value = IntegerMinusOne
        /\ (routine = "mock_reflection_demo" /\ fact.N \in {5, 10, 12}) =>
               /\ fact.value = [sign |-> 1, digits |-> ExactFactorial(fact.N)]
               /\ ~DigitsLess(INT_MAX, fact.value.digits)
               /\ fact.N = 12 => fact.value.digits = <<4,7,9,0,0,1,6,0,0>>

(* the largest argument the long long version multiplies for *)
C29_TwentyFactorial ==
    /\ demo_pc = "instantiated"
    /\ routine = "working_reflection_demo"
    /\ fact.N = 20
    /\ fact.value.sign = 1
    /\ Len(fact.value.digits) = 19

====
